---- MODULE Spec2Model ----
(***************************************************************************)
(* A model of the nexus gateway (services/gateway/app): the admission      *)
(* controller of backends.py, the health gate of health_checker.py, the    *)
(* chat handler of openai_routes.py, the tool executor of tools_bus.py,    *)
(* the stream translators of upstreams.py / streaming.py and the agent     *)
(* loop of agent_runtime_v1.py.                                            *)
(*                                                                         *)
(* The gateway's coroutines run on one asyncio event loop: between two     *)
(* suspension points a handler runs alone.  The variable `running` names   *)
(* the handler that currently owns the loop, so the model shows a          *)
(* handler's intermediate states without inventing interleavings the loop  *)
(* cannot produce.                                                         *)
(***************************************************************************)
EXTENDS Integers, Sequences, FiniteSets, TLC

\* ------------------------------------------------------------------ bounds
NumReqs == 3
MaxLimit == 2
NumCallers == 2
NumWorkers == 2
TOOLS_MAX_CONCURRENT == 1
MaxExcess == 1
MaxItems == 3
MaxTurns == 2
MaxToolCalls == 2
MaxIo == 1
MaxBudget == 1
MaxModelLen == 2
MaxSize == 2
MaxReplays == 2
MaxBurst == 2
MaxRps == 2
MaxClock == 3
TokenUnit == 2
NumRuns == 2
MaxConc == 1
MaxQueue == 1
MaxActs == 1
MaxRounds == 2
MaxMtime == 2

None == "none"
Reqs == 1..NumReqs
Callers == 1..NumCallers
Workers == 1..NumWorkers

\* ------------------------------------------------- backends.py: registry
RouteBackends == {"ollama", "mlx"}

EmptyMap == [x \in {} |-> None]

\* BackendConfig: the fields admission and gating read
BackendConfig(caps, n) ==
    [supported_capabilities |-> caps, concurrency_limits |-> [k \in {"chat"} |-> n]]

\* The registries the model starts from: the built-in one (_default_registry:
\* classes "ollama" and "mlx", no legacy names), and a file-loaded one whose
\* only class is "local_mlx", with the router's "mlx" as its legacy name.
Registries ==
    { [backends |-> [c \in {"ollama", "mlx"} |->
                      BackendConfig({"chat", "embeddings"}, IF c = "ollama" THEN n ELSE m)],
       legacy_mapping |-> EmptyMap] : n \in 1..MaxLimit, m \in 1..MaxLimit }
    \cup
    { [backends |-> [c \in {"local_mlx"} |-> BackendConfig(caps, 1)],
       legacy_mapping |-> [n \in {"mlx"} |-> "local_mlx"]] :
        caps \in {{"chat", "embeddings"}, {"embeddings"}} }

\* Python's None, for a BackendConfig, a HealthStatus, a semaphore key, a handler
NoBackend == [absent |-> TRUE]
NoStatus == [absent |-> TRUE]
NoKey == <<>>
NoOne == {}
NoLease == [key |-> NoKey, releases |-> 0]
NoSchema == [absent |-> TRUE]
NoCall == [name |-> None, allowed_tools |-> {}, args |-> {}]
NoEvent == [replay_id |-> 0, request_hash |-> <<>>, tool |-> None, version |-> None, args |-> {}]
NoReplay == [rid |-> 0, status |-> 0, record |-> NoEvent, found |-> None]
NoOut == [status |-> 0, error_type |-> None, ran |-> FALSE, issues |-> {}]

\* tools_bus._tools_concurrency_sem: the semaphore's initial value
_tools_concurrency_sem == IF TOOLS_MAX_CONCURRENT <= 0 THEN 1 ELSE TOOLS_MAX_CONCURRENT

supports(config, route_kind) == route_kind \in config.supported_capabilities

get_limit(config, route_kind) ==
    IF route_kind \in DOMAIN config.concurrency_limits
    THEN config.concurrency_limits[route_kind]
    ELSE 1

resolve_backend_class(reg, backend_name) ==
    IF backend_name \in DOMAIN reg.legacy_mapping
    THEN reg.legacy_mapping[backend_name]
    ELSE backend_name

get_backend(reg, backend_class) ==
    LET actual_class == resolve_backend_class(reg, backend_class)
    IN  IF actual_class \in DOMAIN reg.backends THEN reg.backends[actual_class] ELSE NoBackend

\* ------------------------------------------------------------------ state
VARIABLES
    registry,     \* BackendRegistry, read-only after initialisation
    semaphores,   \* AdmissionController._semaphores: (class, kind) -> _value
    health,       \* HealthChecker._status: class -> None or a HealthStatus
    running,      \* the handler that owns the event loop: {r}, or NoOne
    pc,           \* each chat handler's position
    cls,          \* each chat handler's backend_class
    resp,         \* each chat handler's response: status, error, Retry-After
    acquired,     \* history: permits this request has acquired so far
    released,     \* history: permits this request has released so far
    _running,     \* HealthChecker._running
    hpc,          \* HealthChecker._check_loop's position
    todo,         \* the _check_backend tasks asyncio.gather still waits for
    rounds,       \* history: the rounds (_check_all calls) begun so far
    probed,       \* history: the backends whose status this round has recorded
    raised,       \* history: the backends whose probe raised in this round
    holder,       \* direct callers of the controller: their lease
    tools_sem,    \* the Semaphore objects _tools_concurrency_sem has created: their
                  \* values, oldest first; _TOOLS_CONCURRENCY_SEM is the last, None if none
    tpc,          \* each threadpool worker's position in _execute_tool
    call,         \* the worker's call: name, allowed_tools, args
    tout,         \* the worker's outcome: status, error_type, ran
    sem,          \* _execute_tool's local sem: an index of tools_sem, 0 before it is set
    tool_acquired,\* _execute_tool's local acquired
    log_mode,     \* S.TOOLS_LOG_MODE
    tools_log,    \* the NDJSON file at TOOLS_LOG_PATH: its lines, the last one still open
    tools_files,  \* TOOLS_LOG_DIR: replay_id -> what {replay_id}.json holds
    minted,       \* replay ids minted so far (new_id never repeats one)
    replay_id,    \* _execute_tool's local replay_id, 0 before it is minted
    returned,     \* history: replay_id -> the request of each execution that returned it
    replayed,     \* the last answer of GET /v1/tools/replay/{replay_id}, and what it
                  \* found at {replay_id}.json
    translator,   \* the stream translator at work: "ollama", "mlx" or None
    spc,          \* the translator's position
    out,          \* the chunks the translator has yielded to the client
    finish_sent,  \* stream_ollama_chat_as_openai.finish_sent
    done_seen,    \* passthrough_sse.done_seen
    tail,         \* passthrough_sse.tail
    fed,          \* the upstream items (chunks or lines) consumed so far
    fault,        \* history: how the upstream failed, or None
    cancel_at,    \* history: {} or {the number of chunks out when the client cancelled}
    apc,          \* run_agent_v1's position
    max_turns,    \* spec.max_turns
    max_tool_io,  \* spec.max_total_tool_io_bytes: {} for None, else {n}
    turn,         \* the loop variable of run_agent_v1
    pending,      \* tool calls of the current action not yet executed
    total_tool_io,
    events,       \* the transcript: the type of each event, in order
    ok,
    error,        \* the detail of the caught exception, or None
    http_status,  \* the status of the response to POST /v1/agent/run
    calls_after,  \* upstream and tool calls begun with the I/O budget exceeded
    _ALIASES_CACHE,   \* model_aliases._ALIASES_CACHE: {} for None, else {table}
    alias_file,       \* the alias table load_aliases would read now
    router_config,    \* router_cfg(): the RouterConfig built from the settings
    route_in,         \* the arguments of the decide_route call in progress
    route_out,        \* the RouteDecision of the last call
    route_loads,      \* history: alias-table loads made by the last call
    remembered,       \* history: one earlier call, its arguments and decision
    _RATE_STATE,      \* tools_bus._RATE_STATE: bearer token -> {"tokens", "t"}
    clock,            \* time.monotonic(), in ticks
    rate_policy,      \* tools_rate_limit_rps and tools_rate_limit_burst in force
    admitted,         \* history: bearer token -> the times its bucket admitted a request
    rate_resp,        \* the outcome of the last _rate_limit call
    agent_settings,   \* the AGENT_* settings of S
    agent_specs_file, \* the contents of AGENT_SPECS_PATH
    _sem,             \* _ADMISSION._sem: backend -> semaphore
    _waiters,         \* _ADMISSION._waiters: backend -> count
    rpc,              \* each agent run's position
    run,              \* each agent run's locals and history; executed is what the last tool call ran
    run_resp,         \* the response to each POST /v1/agent/run
    TOOLS_REGISTRY_SHA256,  \* S.TOOLS_REGISTRY_SHA256: {} when unset, else {digest}
    tools_registry_file,    \* the file at TOOLS_REGISTRY_PATH: its st_mtime and bytes
    _REGISTRY_CACHE,        \* tools_bus._REGISTRY_CACHE: mtime and tools (path is fixed)
    declared                \* the last return value of _load_tools_registry, and
                            \* history: whether the file matched the digest then

\* the health loop's own state
loopVars == <<_running, hpc, todo, rounds, probed, raised>>

chatVars == <<registry, semaphores, health, running, pc, cls, resp, acquired, released, loopVars>>

\* what the chat handlers and the health loop leave alone
replayVars == <<log_mode, tools_log, tools_files, minted, replay_id, returned, replayed>>

toolVars == <<tools_sem, tpc, call, tout, sem, tool_acquired, replayVars>>

streamVars == <<translator, spc, out, finish_sent, done_seen, tail, fed, fault, cancel_at>>

agentVars == <<apc, max_turns, max_tool_io, turn, pending, total_tool_io, events, ok,
               error, http_status, calls_after>>

routeVars == <<_ALIASES_CACHE, alias_file, router_config, route_in, route_out, route_loads,
               remembered>>

rateVars == <<_RATE_STATE, clock, rate_policy, admitted, rate_resp>>

runVars == <<agent_settings, agent_specs_file, _sem, _waiters, rpc, run, run_resp>>

declVars == <<TOOLS_REGISTRY_SHA256, tools_registry_file, _REGISTRY_CACHE, declared>>

notChat == <<holder, toolVars, streamVars, agentVars, routeVars, runVars, rateVars, declVars>>

vars == <<chatVars, holder, toolVars, streamVars, agentVars, routeVars, runVars, rateVars, declVars>>

NoResp == [status |-> 0, error |-> None, retry_after |-> 0]
Http(s, e, ra) == [status |-> s, error |-> e, retry_after |-> ra]

\* AdmissionController._init_semaphores
_init_semaphores(reg) ==
    LET keys == { <<c, k>> : c \in DOMAIN reg.backends, k \in {"chat", "embeddings"} }
        live == { key \in keys : key[2] \in reg.backends[key[1]].supported_capabilities }
    IN  [key \in live |-> get_limit(reg.backends[key[1]], key[2])]

\* AdmissionController._get_semaphore: the key of the semaphore, or None
_get_semaphore(reg, sems, backend_class, route_kind) ==
    LET key == <<resolve_backend_class(reg, backend_class), route_kind>>
    IN  IF key \in DOMAIN sems THEN key ELSE NoKey

\* acquire without the test of sem._value under the lock
acquire_unchecked(reg, sems, backend_class, route_kind) ==
    LET key == _get_semaphore(reg, sems, backend_class, route_kind)
    IN  IF key = NoKey
        THEN [resp |-> Http(400, "capability_not_supported", 0), sems |-> sems, key |-> NoKey]
        ELSE [resp |-> NoResp, sems |-> [sems EXCEPT ![key] = @ - 1], key |-> key]

\* acquire refusing an overloaded backend with 503 and the gate's Retry-After
acquire_as_unavailable(reg, sems, backend_class, route_kind) ==
    LET key == _get_semaphore(reg, sems, backend_class, route_kind)
    IN  IF key = NoKey
        THEN [resp |-> Http(400, "capability_not_supported", 0), sems |-> sems, key |-> NoKey]
        ELSE IF sems[key] = 0
        THEN [resp |-> Http(503, "backend_overloaded", 30), sems |-> sems, key |-> NoKey]
        ELSE [resp |-> NoResp, sems |-> [sems EXCEPT ![key] = @ - 1], key |-> key]

\* AdmissionController.acquire: the outcome and the semaphores afterwards.
\* _locks has the keys of _semaphores, and the section under the lock never
\* suspends, so the lock is free whenever a handler reaches it.
acquire(reg, sems, backend_class, route_kind) ==
    LET key == _get_semaphore(reg, sems, backend_class, route_kind)
    IN  IF key = NoKey
        THEN [resp |-> Http(400, "capability_not_supported", 0), sems |-> sems, key |-> NoKey]
        ELSE IF sems[key] = 0
        THEN [resp |-> Http(429, "backend_overloaded", 5), sems |-> sems, key |-> NoKey]
        ELSE [resp |-> NoResp, sems |-> [sems EXCEPT ![key] = @ - 1], key |-> key]

\* a release that gives no permit back
release_nothing(reg, sems, backend_class, route_kind) == sems

\* AdmissionController.release
release(reg, sems, backend_class, route_kind) ==
    LET key == _get_semaphore(reg, sems, backend_class, route_kind)
    IN  IF key # NoKey THEN [sems EXCEPT ![key] = @ + 1] ELSE sems

\* sem.release(): the permits that went back between two values of the map
permits_returned(before, after) ==
    IF \E key \in DOMAIN before : after[key] > before[key]
    THEN LET key == CHOOSE k \in DOMAIN before : after[k] > before[k]
         IN  after[key] - before[key]
    ELSE 0

\* AdmissionController.get_stats
get_stats(reg, sems) ==
    [key \in DOMAIN sems |->
        LET config == get_backend(reg, key[1])
            limit == IF config # NoBackend THEN get_limit(config, key[2]) ELSE 1
            available == sems[key]
        IN  [limit |-> limit, available |-> available, inflight |-> limit - available]]

\* ------------------------------------------- health_checker.py: the gate
\* is_ready reading the optimistic default for every backend
is_ready_optimistic(st, backend_class) == TRUE

\* is_ready answering False for a backend the status map does not know
is_ready_registered_only(st, backend_class) ==
    /\ backend_class \in DOMAIN st
    /\ (st[backend_class] = NoStatus \/ st[backend_class].is_ready)

is_ready(st, backend_class) ==
    IF backend_class \notin DOMAIN st \/ st[backend_class] = NoStatus
    THEN TRUE
    ELSE st[backend_class].is_ready

\* check_backend_ready: None when the request may pass, else the refusal
check_backend_ready(reg, st, backend_class) ==
    IF get_backend(reg, backend_class) = NoBackend
    THEN Http(400, "backend_not_found", 0)
    ELSE IF ~is_ready(st, backend_class)
    THEN Http(503, "backend_not_ready", 30)
    ELSE NoResp

\* check_capability
check_capability(reg, backend_class, route_kind) ==
    LET backend == get_backend(reg, backend_class)
    IN  IF backend = NoBackend
        THEN Http(400, "backend_not_found", 0)
        ELSE IF ~supports(backend, route_kind)
        THEN Http(400, "capability_not_supported", 0)
        ELSE NoResp

NoRoute == [absent |-> TRUE]
NoDecision == [backend |-> None, model |-> <<>>, reason |-> None]

\* Settings.TOOLS_LOG_MODE
LogModes == {"ndjson", "per_invocation", "both"}

\* every component but the router, as constructed
GatewayStart(mode) ==
    /\ log_mode = mode
    /\ registry \in Registries
    /\ semaphores = _init_semaphores(registry)
    /\ health = [c \in DOMAIN registry.backends |-> NoStatus]
    /\ running = NoOne
    /\ pc = [r \in Reqs |-> "idle"]
    /\ cls = [r \in Reqs |-> None]
    /\ resp = [r \in Reqs |-> NoResp]
    /\ acquired = [r \in Reqs |-> 0]
    /\ released = [r \in Reqs |-> 0]
    /\ _running = FALSE
    /\ hpc = "stopped"
    /\ todo = {}
    /\ rounds = 0
    /\ probed = {}
    /\ raised = {}
    /\ holder = [c \in Callers |-> NoLease]
    /\ tools_sem = <<>>
    /\ sem = [w \in Workers |-> 0]
    /\ tool_acquired = [w \in Workers |-> FALSE]
    /\ tools_log = <<<<>>>>
    /\ tools_files = EmptyMap
    /\ minted = 0
    /\ replay_id = [w \in Workers |-> 0]
    /\ returned = EmptyMap
    /\ replayed = NoReplay
    /\ tpc = [w \in Workers |-> "idle"]
    /\ call = [w \in Workers |-> NoCall]
    /\ tout = [w \in Workers |-> NoOut]
    /\ translator = None
    /\ spc = "idle"
    /\ out = <<>>
    /\ finish_sent = FALSE
    /\ done_seen = FALSE
    /\ tail = <<>>
    /\ fed = <<>>
    /\ fault = None
    /\ cancel_at = {}
    /\ apc = "idle"
    /\ max_turns = 0
    /\ max_tool_io = {}
    /\ turn = 0
    /\ pending = 0
    /\ total_tool_io = 0
    /\ events = <<>>
    /\ ok = FALSE
    /\ error = None
    /\ http_status = 0
    /\ calls_after = 0

\* the router before its first call, with settings cfg and alias file f
RouterStart(cfg, f) ==
    /\ _ALIASES_CACHE = {}
    /\ alias_file = f
    /\ router_config = cfg
    /\ route_in = NoRoute
    /\ route_out = NoDecision
    /\ route_loads = 0
    /\ remembered = [in |-> NoRoute, out |-> NoDecision]

\* TOOLS_LOG_MODE = "ndjson", the default
GatewayInit == GatewayStart("ndjson")

NoRateResp == [tok |-> None, status |-> 0, error_type |-> None, level |-> 0]

\* the tools rate limiter before its first request; pol is the rate (in
\* TokenUnit-ths of a token per tick) and the capacity (in tokens)
RateStart(pol) ==
    /\ _RATE_STATE = EmptyMap
    /\ clock = 0
    /\ rate_policy = pol
    /\ admitted = EmptyMap
    /\ rate_resp = NoRateResp

Runs == 1..NumRuns

\* self._sem.get(backend) before the first acquire
NoSem == [_initial_value |-> 0, _value |-> 0, _waiters |-> <<>>]

NoRun == [configured |-> FALSE, backend |-> None, tier |-> 0, declared |-> {}, allowed |-> {},
          offered |-> {}, executed |-> {}, acts |-> 0,
          lease |-> FALSE, leased |-> FALSE, upstream |-> FALSE, transcript |-> FALSE]

NoRunResp == [status |-> 0, error |-> None]

\* the agent runtime before its first run request
RunStart(S, file) ==
    /\ agent_settings = S
    /\ agent_specs_file = file
    /\ _sem = [b \in RouteBackends |-> NoSem]
    /\ _waiters = [b \in RouteBackends |-> 0]
    /\ rpc = [r \in Runs |-> "idle"]
    /\ run = [r \in Runs |-> NoRun]
    /\ run_resp = [r \in Runs |-> NoRunResp]

\* config.py's defaults
DefaultAgentSettings ==
    [AGENT_SHED_HEAVY |-> TRUE,
     AGENT_BACKEND_CONCURRENCY_OLLAMA |-> 4,
     AGENT_BACKEND_CONCURRENCY_MLX |-> 2,
     AGENT_QUEUE_MAX |-> 32]

\* TOOLS_RATE_LIMIT_RPS = 0.0, TOOLS_RATE_LIMIT_BURST = 0: no limit
DefaultRatePolicy == [rps |-> 0, burst |-> 0]

\* DEFAULT_BACKEND = "ollama"
DefaultRouterConfig ==
    [default_backend |-> "ollama",
     ollama_strong_model |-> <<"ollama-strong">>,
     ollama_fast_model |-> <<"ollama-fast">>,
     mlx_strong_model |-> <<"mlx-strong">>,
     mlx_fast_model |-> <<"mlx-fast">>,
     long_context_chars_threshold |-> MaxSize]

\* ----------------------------- tools_bus.py: the declared-tools registry
\* TOOLS_REGISTRY_SHA256 unset; no file at TOOLS_REGISTRY_PATH
NoDigest == {}
NoFile == [absent |-> TRUE]

\* the bytes the registry file may hold: the file the operator signed, that
\* file with a tool added, and another file altogether
RegistryBytes == {"signed", "edited", "replaced"}

\* json.loads and the validation loop: the tools a file declares
declared_in(bytes) ==
    CASE bytes = "signed" -> {"ext"}
      [] bytes = "edited" -> {"ext", "rogue"}
      [] bytes = "replaced" -> {"rogue"}

\* hashlib.sha256(data).hexdigest(): different bytes, different digests
sha256(bytes) == <<"sha256", bytes>>

\* _REGISTRY_CACHE as the module creates it
NoCache == [mtime |-> {}, tools |-> {}]

\* the file's digest differs from the configured one
Mismatch(expected_sha, file) ==
    file # NoFile /\ expected_sha # NoDigest /\ expected_sha # {sha256(file.bytes)}

\* _load_tools_registry: the tools returned and _REGISTRY_CACHE afterwards
_load_tools_registry(expected_sha, file, cache) ==
    IF file = NoFile
    THEN [tools |-> {}, cache |-> cache]
    ELSE IF cache.mtime = {file.mtime}
    THEN [tools |-> cache.tools, cache |-> cache]
    ELSE IF Mismatch(expected_sha, file)
    THEN [tools |-> {}, cache |-> cache]
    ELSE [tools |-> declared_in(file.bytes),
          cache |-> [mtime |-> {file.mtime}, tools |-> declared_in(file.bytes)]]

DeclStart(expected_sha, file) ==
    /\ TOOLS_REGISTRY_SHA256 = expected_sha
    /\ tools_registry_file = file
    /\ _REGISTRY_CACHE = NoCache
    /\ declared = [tools |-> {}, mismatch |-> FALSE, cache_hit |-> FALSE]

\* The file is written from outside the gateway.  int(st_mtime) counts whole
\* seconds: a write in the second of the previous one (or one that puts the
\* old timestamp back) leaves it as it was.
RegistryWrite(bytes, later) ==
    /\ later => (tools_registry_file # NoFile /\ tools_registry_file.mtime < MaxMtime)
    /\ tools_registry_file' =
          [mtime |-> IF tools_registry_file = NoFile THEN 0
                     ELSE IF later THEN tools_registry_file.mtime + 1
                     ELSE tools_registry_file.mtime,
           bytes |-> bytes]
    /\ tools_registry_file' # tools_registry_file
    /\ UNCHANGED <<chatVars, holder, toolVars, streamVars, agentVars, routeVars, runVars, rateVars,
                   TOOLS_REGISTRY_SHA256, _REGISTRY_CACHE, declared>>

\* _resolve_declared_tool, or the tool listing, calls _load_tools_registry
RegistryLoad ==
    /\ LET r == _load_tools_registry(TOOLS_REGISTRY_SHA256, tools_registry_file, _REGISTRY_CACHE)
       IN  /\ _REGISTRY_CACHE' = r.cache
           /\ declared' = [tools |-> r.tools,
                           mismatch |-> Mismatch(TOOLS_REGISTRY_SHA256, tools_registry_file),
                           cache_hit |-> /\ tools_registry_file # NoFile
                                         /\ _REGISTRY_CACHE.mtime = {tools_registry_file.mtime}]
    /\ <<_REGISTRY_CACHE', declared'>> # <<_REGISTRY_CACHE, declared>>
    /\ UNCHANGED <<chatVars, holder, toolVars, streamVars, agentVars, routeVars, runVars, rateVars,
                   TOOLS_REGISTRY_SHA256, tools_registry_file>>

DeclNext ==
    \/ \E bytes \in RegistryBytes, later \in BOOLEAN : RegistryWrite(bytes, later)
    \/ RegistryLoad

\* the default settings, no alias file
Init ==
    /\ GatewayInit
    /\ DeclStart(NoDigest, NoFile)
    /\ RouterStart(DefaultRouterConfig, EmptyMap)
    /\ RateStart(DefaultRatePolicy)
    /\ RunStart(DefaultAgentSettings, EmptyMap)

\* The tool executor, the translators and the agent loop do not read the
\* backend registry: one registry suffices.
OneRegistry == DOMAIN registry.legacy_mapping = {} /\ \A k \in DOMAIN semaphores : semaphores[k] = 1

\* the digest of the signed file is configured, or none is
DeclInit ==
    /\ GatewayStart("ndjson")
    /\ OneRegistry
    /\ RouterStart(DefaultRouterConfig, EmptyMap)
    /\ RateStart(DefaultRatePolicy)
    /\ RunStart(DefaultAgentSettings, EmptyMap)
    /\ \E expected_sha \in {NoDigest, {sha256("signed")}},
          file \in {NoFile} \cup { [mtime |-> 0, bytes |-> b] : b \in RegistryBytes } :
          DeclStart(expected_sha, file)

DeclSpec == DeclInit /\ [][DeclNext]_vars

\* HealthChecker._check_backend: one probe of one backend records a status
Probe(c, url_ok, live, rdy) ==
    /\ running = NoOne
    /\ c \in DOMAIN registry.backends
    /\ LET is_healthy == url_ok /\ live
           ready == is_healthy /\ rdy
       IN  health' = [health EXCEPT ![c] = [is_ready |-> ready]]
    /\ UNCHANGED <<registry, semaphores, running, pc, cls, resp, acquired, released, notChat, loopVars>>

\* ----------------------------- health_checker.py: the background loop
\* what the health loop leaves alone
handlerVars == <<registry, semaphores, running, pc, cls, resp, acquired, released, notChat>>

\* a gather that gives up on the whole round at the first exception
gather_first_exception(waiting, c, raises) == IF raises THEN {} ELSE waiting \ {c}

\* asyncio.gather(*tasks, return_exceptions=True): a task that raised is a
\* finished task like any other; gather goes on waiting for the rest
gather(waiting, c, raises) == waiting \ {c}

\* HealthChecker.start
CheckerStart ==
    /\ ~_running
    /\ _running' = TRUE
    /\ hpc' = "loop"
    /\ UNCHANGED <<health, todo, rounds, probed, raised, handlerVars>>

\* HealthChecker.stop: the flag is cleared and the task cancelled at the
\* await it is suspended in, its pending probes with it
CheckerStop ==
    /\ _running
    /\ _running' = FALSE
    /\ hpc' = "stopped"
    /\ todo' = {}
    /\ UNCHANGED <<health, rounds, probed, raised, handlerVars>>

\* _check_loop: `while self._running`, then _check_all up to the gather: one
\* _check_backend task per backend of the registry
RoundStart ==
    /\ hpc = "loop"
    /\ _running
    /\ rounds < MaxRounds
    /\ rounds' = rounds + 1
    /\ todo' = DOMAIN registry.backends
    /\ probed' = {}
    /\ raised' = {}
    /\ hpc' = "gather"
    /\ UNCHANGED <<health, _running, handlerVars>>

\* _check_backend for backend c ends.  how = "answered": both requests were
\* answered, or base_url is not configured; "caught": a request raised and
\* the except clauses recorded the error; "escaped": an exception left
\* _check_backend before it stored a status.
CheckBackend(c, how, url_ok, live, rdy) ==
    /\ hpc = "gather"
    /\ c \in todo
    /\ CASE how = "answered" ->
               /\ health' = [health EXCEPT ![c] = [is_ready |-> url_ok /\ live /\ rdy]]
               /\ probed' = probed \cup {c}
               /\ UNCHANGED raised
         [] how = "caught" ->
               /\ health' = [health EXCEPT ![c] = [is_ready |-> FALSE]]
               /\ probed' = probed \cup {c}
               /\ UNCHANGED raised
         [] how = "escaped" ->
               /\ raised' = raised \cup {c}
               /\ UNCHANGED <<health, probed>>
    /\ todo' = gather(todo, c, how = "escaped")
    /\ UNCHANGED <<_running, hpc, rounds, handlerVars>>

\* _check_all returns: every task is done; the loop goes to sleep
RoundEnd ==
    /\ hpc = "gather"
    /\ todo = {}
    /\ hpc' = "sleep"
    /\ UNCHANGED <<health, _running, todo, rounds, probed, raised, handlerVars>>

\* asyncio.sleep(self.check_interval) returns
SleepEnd ==
    /\ hpc = "sleep"
    /\ hpc' = "loop"
    /\ UNCHANGED <<health, _running, todo, rounds, probed, raised, handlerVars>>

HealthNext ==
    \/ CheckerStart
    \/ CheckerStop
    \/ RoundStart
    \/ \E c \in {"ollama", "mlx", "local_mlx"}, how \in {"answered", "caught", "escaped"},
          u, l, y \in BOOLEAN : CheckBackend(c, how, u, l, y)
    \/ RoundEnd
    \/ SleepEnd

HealthSpec == Init /\ [][HealthNext]_vars

\* The event loop runs the task; every probe ends (its requests carry the
\* checker's timeout) and the sleep ends after check_interval.
HealthLiveSpec ==
    /\ HealthSpec
    /\ WF_vars(RoundStart)
    /\ \A c \in {"ollama", "mlx", "local_mlx"} :
          WF_vars(\E how \in {"answered", "caught", "escaped"}, u, l, y \in BOOLEAN :
                     CheckBackend(c, how, u, l, y))
    /\ WF_vars(RoundEnd)
    /\ WF_vars(SleepEnd)

\* ------------------------------- openai_routes.py: POST /v1/chat/completions
\* the handler taking its admission permit before the two pre-flight checks
step_after_acquire_first(stage) ==
    CASE stage = "route" -> "acquire"
      [] stage = "acquire" -> "ready"
      [] stage = "ready" -> "capability"
      [] stage = "capability" -> "constraints"

\* chat_completions between decide_route and the try block: readiness, then
\* capability, then admission
step_after(stage) ==
    CASE stage = "route" -> "ready"
      [] stage = "ready" -> "capability"
      [] stage = "capability" -> "acquire"
      [] stage = "acquire" -> "constraints"

\* chat_completions up to decide_route: the body is read and memory injected
\* (suspension points), then the router names the backend b.
Arrive(r, b) ==
    /\ running = NoOne
    /\ pc[r] = "idle"
    /\ running' = {r}
    /\ pc' = [pc EXCEPT ![r] = step_after("route")]
    /\ cls' = [cls EXCEPT ![r] = resolve_backend_class(registry, b)]
    /\ resp' = [resp EXCEPT ![r] = NoResp]
    /\ acquired' = [acquired EXCEPT ![r] = 0]
    /\ released' = [released EXCEPT ![r] = 0]
    /\ UNCHANGED <<registry, semaphores, health, notChat, loopVars>>

\* A refusal raised before the try block: the handler ends, nothing is released.
Refuse(r, x) ==
    /\ resp' = [resp EXCEPT ![r] = x]
    /\ pc' = [pc EXCEPT ![r] = "done"]
    /\ UNCHANGED running

\* chat_completions: check_backend_ready(backend_class, route_kind="chat")
ReadyCheck(r) ==
    /\ running = {r}
    /\ pc[r] = "ready"
    /\ LET x == check_backend_ready(registry, health, cls[r])
       IN  IF x # NoResp
           THEN Refuse(r, x)
           ELSE /\ pc' = [pc EXCEPT ![r] = step_after("ready")]
                /\ UNCHANGED <<resp, running>>
    /\ UNCHANGED <<registry, semaphores, health, cls, acquired, released, notChat, loopVars>>

\* chat_completions: await check_capability(backend_class, "chat")
CapabilityCheck(r) ==
    /\ running = {r}
    /\ pc[r] = "capability"
    /\ LET x == check_capability(registry, cls[r], "chat")
       IN  IF x # NoResp
           THEN Refuse(r, x)
           ELSE /\ pc' = [pc EXCEPT ![r] = step_after("capability")]
                /\ UNCHANGED <<resp, running>>
    /\ UNCHANGED <<registry, semaphores, health, cls, acquired, released, notChat, loopVars>>

\* chat_completions: await admission.acquire(backend_class, "chat")
Acquire(r) ==
    /\ running = {r}
    /\ pc[r] = "acquire"
    /\ LET a == acquire(registry, semaphores, cls[r], "chat")
       IN  /\ semaphores' = a.sems
           /\ IF a.resp # NoResp
              THEN /\ Refuse(r, a.resp)
                   /\ UNCHANGED acquired
              ELSE /\ pc' = [pc EXCEPT ![r] = step_after("acquire")]
                   /\ acquired' = [acquired EXCEPT ![r] = @ + 1]
                   /\ UNCHANGED <<resp, running>>
    /\ UNCHANGED <<registry, health, cls, released, notChat, loopVars>>

\* _apply_alias_constraints and the stream/tools check: the refusal, if any
_apply_alias_constraints(has_tools, alias_tools_false, stream) ==
    IF has_tools /\ alias_tools_false
    THEN Http(400, "tools_not_allowed_for_alias", 0)
    ELSE IF stream /\ has_tools
    THEN Http(400, "stream_with_tools", 0)
    ELSE NoResp

\* chat_completions inside the try block, up to the first suspension point:
\* a refusal or a StreamingResponse leaves through the finally block at once,
\* a non-streaming call awaits the upstream.
Constraints(r, has_tools, alias_tools_false, stream) ==
    /\ running = {r}
    /\ pc[r] = "constraints"
    /\ LET x == _apply_alias_constraints(has_tools, alias_tools_false, stream)
       IN  IF x # NoResp
           THEN /\ resp' = [resp EXCEPT ![r] = x]
                /\ pc' = [pc EXCEPT ![r] = "finally"]
                /\ UNCHANGED running
           ELSE IF stream
           THEN /\ resp' = [resp EXCEPT ![r] = Http(200, "stream", 0)]
                /\ pc' = [pc EXCEPT ![r] = "finally"]
                /\ UNCHANGED running
           ELSE /\ pc' = [pc EXCEPT ![r] = "upstream"]
                /\ running' = NoOne
                /\ UNCHANGED resp
    /\ UNCHANGED <<registry, semaphores, health, cls, acquired, released, notChat, loopVars>>

\* The awaited upstream call (tool_loop, call_mlx_openai, call_ollama) ends:
\* with a reply, with an upstream error, or cancelled by a client disconnect.
UpstreamReturn(r, outcome) ==
    /\ running = NoOne
    /\ pc[r] = "upstream"
    /\ running' = {r}
    /\ pc' = [pc EXCEPT ![r] = "finally"]
    /\ resp' = [resp EXCEPT ![r] =
                  CASE outcome = "ok" -> Http(200, None, 0)
                    [] outcome = "error" -> Http(502, "upstream_error", 0)
                    [] OTHER -> Http(499, "cancelled", 0)]
    /\ UNCHANGED <<registry, semaphores, health, cls, acquired, released, notChat, loopVars>>

\* chat_completions: finally: admission.release(backend_class, "chat").
\* A StreamingResponse is relayed only after the handler has returned.
Finally(r) ==
    /\ running = {r}
    /\ pc[r] = "finally"
    /\ semaphores' = release(registry, semaphores, cls[r], "chat")
    /\ released' = [released EXCEPT ![r] = @ + permits_returned(semaphores, semaphores')]
    /\ pc' = [pc EXCEPT ![r] = IF resp[r].error = "stream" THEN "streaming" ELSE "done"]
    /\ running' = IF resp[r].error = "stream" THEN NoOne ELSE {r}
    /\ UNCHANGED <<registry, health, cls, resp, acquired, notChat, loopVars>>

\* The relay of the upstream stream ends (end of stream or client disconnect).
StreamEnd(r) ==
    /\ running = NoOne
    /\ pc[r] = "streaming"
    /\ running' = {r}
    /\ pc' = [pc EXCEPT ![r] = "done"]
    /\ UNCHANGED <<registry, semaphores, health, cls, resp, acquired, released, notChat, loopVars>>

\* The handler is over: its slot takes the next request.
Recycle(r) ==
    /\ running = {r}
    /\ pc[r] = "done"
    /\ running' = NoOne
    /\ pc' = [pc EXCEPT ![r] = "idle"]
    /\ cls' = [cls EXCEPT ![r] = None]
    /\ resp' = [resp EXCEPT ![r] = NoResp]
    /\ acquired' = [acquired EXCEPT ![r] = 0]
    /\ released' = [released EXCEPT ![r] = 0]
    /\ UNCHANGED <<registry, semaphores, health, notChat, loopVars>>

Next ==
    \/ \E c \in {"ollama", "mlx", "local_mlx"}, u, l, y \in BOOLEAN : Probe(c, u, l, y)
    \/ \E r \in Reqs, b \in RouteBackends : Arrive(r, b)
    \/ \E r \in Reqs : ReadyCheck(r)
    \/ \E r \in Reqs : CapabilityCheck(r)
    \/ \E r \in Reqs : Acquire(r)
    \/ \E r \in Reqs, t, a, s \in BOOLEAN : Constraints(r, t, a, s)
    \/ \E r \in Reqs, o \in {"ok", "error", "cancelled"} : UpstreamReturn(r, o)
    \/ \E r \in Reqs : Finally(r)
    \/ \E r \in Reqs : StreamEnd(r)
    \/ \E r \in Reqs : Recycle(r)

Spec == Init /\ [][Next]_vars

ConfiguredLimit(key) == get_limit(registry.backends[key[1]], key[2])

\* --------------------------------- direct use of the AdmissionController
\* A caller of the controller's public methods (as verify_policy_enforcement
\* drives it): acquire, then release, and possibly release again.
LeaseAcquire(c, b, kind) ==
    /\ holder[c] = NoLease
    /\ LET a == acquire(registry, semaphores, b, kind)
       IN  /\ a.resp = NoResp
           /\ semaphores' = a.sems
           /\ holder' = [holder EXCEPT ![c] = [key |-> a.key, releases |-> 0]]
    /\ UNCHANGED <<registry, health, running, pc, cls, resp, acquired, released, loopVars, declVars, toolVars, streamVars, agentVars, routeVars, runVars, rateVars>>

LeaseRelease(c) ==
    /\ holder[c] # NoLease
    /\ holder[c].releases < 2
    /\ semaphores[holder[c].key] < ConfiguredLimit(holder[c].key) + MaxExcess
    /\ semaphores' = release(registry, semaphores, holder[c].key[1], holder[c].key[2])
    /\ holder' = [holder EXCEPT ![c].releases = @ + 1]
    /\ UNCHANGED <<registry, health, running, pc, cls, resp, acquired, released, loopVars, declVars, toolVars, streamVars, agentVars, routeVars, runVars, rateVars>>

LeaseForget(c) ==
    /\ holder[c] # NoLease
    /\ holder[c].releases >= 1
    /\ holder' = [holder EXCEPT ![c] = NoLease]
    /\ UNCHANGED <<chatVars, declVars, toolVars, streamVars, agentVars, routeVars, runVars, rateVars>>

LeaseNext ==
    \/ \E c \in Callers, b \in {"ollama", "mlx", "local_mlx"}, k \in {"chat", "embeddings"} :
          LeaseAcquire(c, b, k)
    \/ \E c \in Callers : LeaseRelease(c)
    \/ \E c \in Callers : LeaseForget(c)

LeaseSpec == Init /\ [][LeaseNext]_vars

\* ------------------------------------------------ tools_bus.py: execute
ToolNames == {"noop", "shell", "ext", "ghost"}

\* TOOL_SCHEMAS, as far as validation reads it
TOOL_SCHEMAS ==
    [n \in {"noop", "shell"} |->
        [version |-> "1",
         type |-> "object",
         properties |-> IF n = "noop" THEN {"text"} ELSE {"cmd"},
         required |-> IF n = "noop" THEN {} ELSE {"cmd"},
         additionalProperties |-> FALSE]]

\* _load_tools_registry: the tools the infra-owned file declares.  Any dict
\* is accepted as "parameters"; this one leaves "type" out, as JSON Schema
\* allows.  ("ghost" is declared nowhere.)
ToolsRegistry ==
    [n \in {"ext"} |->
        [version |-> "1",
         type |-> None,
         properties |-> {"path"},
         required |-> {"path"},
         additionalProperties |-> FALSE]]

\* _resolve_declared_tool: the schema, or NoSchema
_resolve_declared_tool(name) ==
    IF name \in DOMAIN ToolsRegistry THEN ToolsRegistry[name]
    ELSE IF name \in DOMAIN TOOL_SCHEMAS THEN TOOL_SCHEMAS[name]
    ELSE NoSchema

\* _validate_against_schema: the issues (args is the set of fields supplied)
_validate_against_schema(sch, args) ==
    IF sch.type # "object"
    THEN {}
    ELSE { <<"missing required field", k>> : k \in sch.required \ args }
         \cup
         (IF sch.additionalProperties = FALSE
          THEN { <<"unexpected field", k>> : k \in args \ sch.properties }
          ELSE {})

\* _execute_tool is entered on a threadpool worker (run_in_threadpool)
ToolCall(w, name, allowed_tools, args) ==
    /\ tpc[w] = "idle"
    /\ minted + Cardinality({ v \in Workers : tpc[v] # "idle" }) < MaxReplays
    /\ tpc' = [tpc EXCEPT ![w] = "sem"]
    /\ call' = [call EXCEPT ![w] = [name |-> name, allowed_tools |-> allowed_tools, args |-> args]]
    /\ tout' = [tout EXCEPT ![w] = NoOut]
    /\ sem' = [sem EXCEPT ![w] = 0]
    /\ tool_acquired' = [tool_acquired EXCEPT ![w] = FALSE]
    /\ UNCHANGED <<chatVars, declVars, holder, streamVars, agentVars, routeVars, runVars, rateVars, replayVars, tools_sem>>

\* _tools_concurrency_sem: `if _TOOLS_CONCURRENCY_SEM is None`.  The workers
\* are threads and nothing locks the global: the test and the assignment
\* that follows it are separate steps.
ToolSem(w) ==
    /\ tpc[w] = "sem"
    /\ IF tools_sem # <<>>
       THEN /\ sem' = [sem EXCEPT ![w] = Len(tools_sem)]
            /\ tpc' = [tpc EXCEPT ![w] = "acquire"]
       ELSE /\ tpc' = [tpc EXCEPT ![w] = "init"]
            /\ UNCHANGED sem
    /\ UNCHANGED <<chatVars, declVars, holder, streamVars, agentVars, routeVars, runVars, rateVars, replayVars, tools_sem, call, tout,
                   tool_acquired>>

\* _tools_concurrency_sem: _TOOLS_CONCURRENCY_SEM = threading.Semaphore(n),
\* by a worker that found the global None; it returns the object it made
ToolSemInit(w) ==
    /\ tpc[w] = "init"
    /\ tools_sem' = Append(tools_sem, _tools_concurrency_sem)
    /\ sem' = [sem EXCEPT ![w] = Len(tools_sem) + 1]
    /\ tpc' = [tpc EXCEPT ![w] = "acquire"]
    /\ UNCHANGED <<chatVars, declVars, holder, streamVars, agentVars, routeVars, runVars, rateVars, replayVars, call, tout, tool_acquired>>

\* _execute_tool: sem.acquire(timeout=timeout_sec) obtains a permit
ToolAcquire(w) ==
    /\ tpc[w] = "acquire"
    /\ tools_sem[sem[w]] > 0
    /\ tools_sem' = [tools_sem EXCEPT ![sem[w]] = @ - 1]
    /\ tool_acquired' = [tool_acquired EXCEPT ![w] = TRUE]
    /\ tpc' = [tpc EXCEPT ![w] = "checks"]
    /\ UNCHANGED <<chatVars, declVars, holder, streamVars, agentVars, routeVars, runVars, rateVars, replayVars, call, tout, sem>>

\* _execute_tool: the acquire times out with no permit free: 429 rate_limited
ToolTimeout(w) ==
    /\ tpc[w] = "acquire"
    /\ tools_sem[sem[w]] = 0
    /\ tout' = [tout EXCEPT ![w] = [status |-> 429, error_type |-> "rate_limited", ran |-> FALSE, issues |-> {}]]
    /\ tpc' = [tpc EXCEPT ![w] = "done"]
    /\ UNCHANGED <<chatVars, declVars, holder, streamVars, agentVars, routeVars, runVars, rateVars, replayVars, tools_sem, call, sem,
                   tool_acquired>>

\* _execute_tool: the rejection the checks raise, or NoOut
tool_rejection(c) ==
    LET sch == _resolve_declared_tool(c.name)
    IN  IF c.name \notin c.allowed_tools
        THEN [status |-> 404, error_type |-> "unknown_tool", ran |-> FALSE, issues |-> {}]
        ELSE IF sch = NoSchema
        THEN [status |-> 404, error_type |-> "undeclared_tool", ran |-> FALSE, issues |-> {}]
        ELSE IF _validate_against_schema(sch, c.args) # {}
        THEN [status |-> 400, error_type |-> "invalid_arguments", ran |-> FALSE,
              issues |-> _validate_against_schema(sch, c.args)]
        ELSE NoOut

\* _execute_tool between the acquire and the try block: the allowlist, the
\* declaration and the arguments are checked with the permit in hand, and a
\* refusal is raised from there.
ToolChecks(w) ==
    /\ tpc[w] = "checks"
    /\ LET x == tool_rejection(call[w])
       IN  IF x # NoOut
           THEN /\ tout' = [tout EXCEPT ![w] = x]
                /\ tpc' = [tpc EXCEPT ![w] = "done"]
                /\ UNCHANGED <<minted, replay_id>>
           ELSE /\ tpc' = [tpc EXCEPT ![w] = "run"]
                /\ minted' = minted + 1
                /\ replay_id' = [replay_id EXCEPT ![w] = minted + 1]
                /\ UNCHANGED tout
    /\ UNCHANGED <<chatVars, declVars, holder, streamVars, agentVars, routeVars, runVars, rateVars, tools_sem, call, sem,
                   tool_acquired, log_mode, tools_log, tools_files, returned, replayed>>

\* _execute_tool: the implementation runs inside try; an exception it raises
\* becomes a failed result
ToolRun(w, outcome) ==
    /\ tpc[w] = "run"
    /\ tout' = [tout EXCEPT ![w] =
                  [status |-> 200, error_type |-> IF outcome = "ok" THEN None ELSE outcome,
                   ran |-> TRUE, issues |-> {}]]
    /\ tpc' = [tpc EXCEPT ![w] = "finally"]
    /\ UNCHANGED <<chatVars, declVars, holder, streamVars, agentVars, routeVars, runVars, rateVars, replayVars, tools_sem,
                   call, sem, tool_acquired>>

\* _execute_tool: finally: sem.release(); _log_tool_event comes next
ToolFinally(w) ==
    /\ tpc[w] = "finally"
    /\ tools_sem' = [tools_sem EXCEPT ![sem[w]] = @ + 1]
    /\ tpc' = [tpc EXCEPT ![w] = IF log_mode = "per_invocation" THEN "file" ELSE "log"]
    /\ UNCHANGED <<chatVars, declVars, holder, streamVars, agentVars, routeVars, runVars, rateVars, replayVars, call, tout,
                   sem, tool_acquired>>

\* _request_hash: sha256 of the canonical JSON of {tool, version, arguments};
\* two requests have one hash exactly when the three fields agree
_request_hash(tool, version, args) == <<"sha256", tool, version, args>>

\* _execute_tool: the event it logs
event(w) ==
    LET version == _resolve_declared_tool(call[w].name).version
    IN  [replay_id |-> replay_id[w],
         request_hash |-> _request_hash(call[w].name, version, call[w].args),
         tool |-> call[w].name,
         version |-> version,
         args |-> call[w].args]

\* f.write(line): the bytes land at the end of the file, on its open line
write_line(file, ev) == [file EXCEPT ![Len(file)] = Append(@, ev)]

\* f.write("\n"): the open line is ended
write_newline(file) == Append(file, <<>>)

\* _write_jsonl_line: open(path, "a"), f.write(line), f.write("\n").  A line
\* shorter than the file buffer reaches the file with its newline in one
\* write on close; a longer one (big) is flushed by f.write(line), and its
\* newline follows in a write of its own.
ToolLog(w, big) ==
    /\ tpc[w] = "log"
    /\ tools_log' = IF big THEN write_line(tools_log, event(w))
                           ELSE write_newline(write_line(tools_log, event(w)))
    /\ tpc' = [tpc EXCEPT ![w] = IF big THEN "newline"
                                 ELSE IF log_mode = "both" THEN "file" ELSE "done"]
    /\ UNCHANGED <<chatVars, declVars, holder, streamVars, agentVars, routeVars, runVars, rateVars, tools_sem, call, tout,
                   sem, tool_acquired, log_mode, tools_files, minted, replay_id, returned,
                   replayed>>

\* _write_jsonl_line: the newline of a long line is written when f closes
ToolLogNewline(w) ==
    /\ tpc[w] = "newline"
    /\ tools_log' = write_newline(tools_log)
    /\ tpc' = [tpc EXCEPT ![w] = IF log_mode = "both" THEN "file" ELSE "done"]
    /\ UNCHANGED <<chatVars, declVars, holder, streamVars, agentVars, routeVars, runVars, rateVars, tools_sem, call, tout,
                   sem, tool_acquired, log_mode, tools_files, minted, replay_id, returned,
                   replayed>>

\* a file that open(path, "w") has just created: it exists and holds nothing
EmptyFile == [part_of |-> NoEvent]

\* a file holding the first bytes of the payload of ev
PartialFile(ev) == [part_of |-> ev]

\* {replay_id}.json holds c from now on
put_file(files, rid, c) ==
    [r \in DOMAIN files \cup {rid} |-> IF r = rid THEN c ELSE files[r]]

\* _write_invocation_file: open(path, "w") creates {replay_id}.json in place
ToolFileOpen(w) ==
    /\ tpc[w] = "file"
    /\ tools_files' = put_file(tools_files, replay_id[w], EmptyFile)
    /\ tpc' = [tpc EXCEPT ![w] = "file_open"]
    /\ UNCHANGED <<chatVars, declVars, holder, streamVars, agentVars, routeVars, runVars, rateVars, tools_sem, call, tout,
                   sem, tool_acquired, log_mode, tools_log, minted, replay_id, returned,
                   replayed>>

\* _write_invocation_file: f.write(payload) of a payload longer than the file
\* buffer sends its first bytes to the file
ToolFileFlush(w) ==
    /\ tpc[w] = "file_open"
    /\ tools_files' = put_file(tools_files, replay_id[w], PartialFile(event(w)))
    /\ tpc' = [tpc EXCEPT ![w] = "file_part"]
    /\ UNCHANGED <<chatVars, declVars, holder, streamVars, agentVars, routeVars, runVars, rateVars, tools_sem, call, tout,
                   sem, tool_acquired, log_mode, tools_log, minted, replay_id, returned,
                   replayed>>

\* _write_invocation_file: the file is closed; the payload and its newline
\* are all there.  {replay_id}.json is written by this call alone.
ToolLogFile(w) ==
    /\ tpc[w] \in {"file_open", "file_part"}
    /\ tools_files' = put_file(tools_files, replay_id[w], event(w))
    /\ tpc' = [tpc EXCEPT ![w] = "done"]
    /\ UNCHANGED <<chatVars, declVars, holder, streamVars, agentVars, routeVars, runVars, rateVars, tools_sem, call, tout,
                   sem, tool_acquired, log_mode, tools_log, minted, replay_id, returned,
                   replayed>>

\* the call has returned (its body carries replay_id and request_hash) or
\* raised; the worker is free again
ToolReturn(w) ==
    /\ tpc[w] = "done"
    /\ tpc' = [tpc EXCEPT ![w] = "idle"]
    /\ returned' = IF replay_id[w] = 0
                   THEN returned
                   ELSE [r \in DOMAIN returned \cup {replay_id[w]} |->
                           IF r = replay_id[w]
                           THEN [tool |-> call[w].name,
                                 version |-> _resolve_declared_tool(call[w].name).version,
                                 arguments |-> call[w].args,
                                 ok |-> tout[w].error_type = None]
                           ELSE returned[r]]
    /\ call' = [call EXCEPT ![w] = NoCall]
    /\ tout' = [tout EXCEPT ![w] = NoOut]
    /\ sem' = [sem EXCEPT ![w] = 0]
    /\ tool_acquired' = [tool_acquired EXCEPT ![w] = FALSE]
    /\ replay_id' = [replay_id EXCEPT ![w] = 0]
    /\ replayed' = IF replayed.rid = replay_id[w] /\ replay_id[w] # 0 THEN NoReplay ELSE replayed
    /\ UNCHANGED <<chatVars, declVars, holder, streamVars, agentVars, routeVars, runVars, rateVars, tools_sem, log_mode,
                   tools_log, tools_files, minted>>

\* v1_tools_replay: what os.path.exists and read_text find at {rid}.json
file_at(files, rid) ==
    IF rid \notin DOMAIN files THEN "no_file"
    ELSE IF files[rid] = EmptyFile THEN "empty"
    ELSE IF "part_of" \in DOMAIN files[rid] THEN "partial"
    ELSE "complete"

\* v1_tools_replay: the per-invocation file if it is there and parses (an
\* empty or cut file makes json.loads raise, which is swallowed), else the last
\* line of the NDJSON file that parses as JSON (a line holding two events run
\* together does not) and carries this replay_id, else 404
v1_tools_replay(files, file, rid) ==
    LET found == file_at(files, rid)
    IN  IF found = "complete"
        THEN [rid |-> rid, status |-> 200, record |-> files[rid], found |-> found]
        ELSE LET matching == { i \in 1..Len(file) : Len(file[i]) = 1 /\ file[i][1].replay_id = rid }
                 last == CHOOSE i \in matching : \A j \in matching : j <= i
             IN  IF matching # {}
                 THEN [rid |-> rid, status |-> 200, record |-> file[last][1], found |-> found]
                 ELSE [rid |-> rid, status |-> 404, record |-> NoEvent, found |-> found]

\* GET /v1/tools/replay/{replay_id}, for an id some execution has returned
\* or is writing the file of.  An answer given before the execution returned
\* is forgotten when it returns (ToolReturn).
ToolReplay(rid) ==
    /\ rid \in DOMAIN returned
          \cup { replay_id[w] : w \in { v \in Workers : tpc[v] \in {"file_open", "file_part"} } }
    /\ replayed' = v1_tools_replay(tools_files, tools_log, rid)
    /\ replayed' # replayed
    /\ UNCHANGED <<chatVars, declVars, holder, streamVars, agentVars, routeVars, runVars, rateVars, tools_sem, tpc, call,
                   tout, sem, tool_acquired, log_mode, tools_log, tools_files, minted,
                   replay_id, returned>>

ToolNext ==
    \/ \E w \in Workers, n \in ToolNames, al \in {{"noop"}, {"shell", "ext", "ghost"}},
          args \in {{}, {"cmd"}} : ToolCall(w, n, al, args)
    \/ \E w \in Workers : ToolSem(w)
    \/ \E w \in Workers : ToolSemInit(w)
    \/ \E w \in Workers : ToolAcquire(w)
    \/ \E w \in Workers : ToolTimeout(w)
    \/ \E w \in Workers : ToolChecks(w)
    \/ \E w \in Workers, o \in {"ok", "tool_failed", "exception"} : ToolRun(w, o)
    \/ \E w \in Workers : ToolFinally(w)
    \/ \E w \in Workers, big \in BOOLEAN : ToolLog(w, big)
    \/ \E w \in Workers : ToolLogNewline(w)
    \/ \E w \in Workers : ToolFileOpen(w)
    \/ \E w \in Workers : ToolFileFlush(w)
    \/ \E w \in Workers : ToolLogFile(w)
    \/ \E w \in Workers : ToolReturn(w)
    \/ \E rid \in 1..minted : ToolReplay(rid)

\* every TOOLS_LOG_MODE
ToolInit ==
    /\ \E mode \in LogModes : GatewayStart(mode)
    /\ DeclStart(NoDigest, NoFile)
    /\ RouterStart(DefaultRouterConfig, EmptyMap)
    /\ RateStart(DefaultRatePolicy)
    /\ RunStart(DefaultAgentSettings, EmptyMap)
    /\ OneRegistry

ToolSpec == ToolInit /\ [][ToolNext]_vars

\* ------------------------------- upstreams.py, streaming.py: translators
\* A chunk is a sequence of byte symbols.  "D1" "D2" are the two halves of
\* the bytes `data: [DONE]`; every other symbol is one whole SSE event.
DoneMarker == <<"D1", "D2">>

\* openai_utils.sse_done
sse_done == DoneMarker

RoleChunk == <<"role">>
ThinkingChunk == <<"thinking">>
\* a delta carrying the content string c
ContentChunk(c) == <<"content", c>>
\* the chunk whose finish_reason is the string r
FinishChunk(r) == <<"finish", r>>
ErrorChunk == <<"error">>

\* the chunks an MLX upstream may send, the empty one included
UpstreamChunks ==
    LET Symbols == {"role", "x", "D1", "D2"}
    IN  {<<>>} \cup { <<a>> : a \in Symbols } \cup { <<a, b>> : a \in Symbols, b \in Symbols }

\* b"data: [DONE]" in hay
Contains(hay, marker) ==
    \E i \in 1..(Len(hay) - Len(marker) + 1) : SubSeq(hay, i, i + Len(marker) - 1) = marker

\* a relay that keeps no tail between chunks
LastN_nothing(hay, n) == <<>>

\* hay[-64:]: the tail kept is longer than the marker
LastN(hay, n) == IF Len(hay) <= n THEN hay ELSE SubSeq(hay, Len(hay) - n + 1, Len(hay))

TailLen == Len(DoneMarker) + 1

\* the lines an Ollama upstream may send
\* message.content of a line: "" stands for every falsy value (absent, null, "")
Contents == {"a", "b"}

\* done_reason of a done line: "" stands for absent
DoneReasons == {"stop", "length"}

OllamaLines ==
    {[kind |-> "blank"], [kind |-> "not_json"], [kind |-> "not_object"], [kind |-> "error"]}
    \cup { [kind |-> "object", thinking |-> t, content |-> c, done |-> FALSE, done_reason |-> ""] :
             t \in BOOLEAN, c \in {""} \cup Contents }
    \cup { [kind |-> "object", thinking |-> t, content |-> c, done |-> TRUE, done_reason |-> r] :
             t \in BOOLEAN, c \in {""} \cup Contents, r \in {""} \cup DoneReasons }

\* obj.get("done_reason") or "stop", with the reason always reported as "stop"
finish_reason_always_stop(line) == "stop"

\* obj.get("done_reason") or "stop"
finish_reason(line) == IF line.done_reason = "" THEN "stop" ELSE line.done_reason

\* ollama_ndjson_to_openai_sse: what one upstream line makes it yield
ndjson_line_chunks(line) ==
    CASE line.kind \in {"blank", "not_json"} -> <<>>
      [] line.kind = "error" -> <<ErrorChunk, FinishChunk("stop"), sse_done>>
      [] line.kind = "object" ->
            (IF line.thinking THEN <<ThinkingChunk>> ELSE <<>>)
            \o (IF line.content # "" THEN <<ContentChunk(line.content)>> ELSE <<>>)
            \o (IF line.done THEN <<FinishChunk(finish_reason(line)), sse_done>> ELSE <<>>)
      [] OTHER -> <<>>

\* ollama_ndjson_to_openai_sse returns after this line
ndjson_line_ends(line) ==
    \/ line.kind = "error"
    \/ line.kind = "object" /\ line.done

\* stream_ollama_chat_as_openai's loop over the inner generator: the chunks
\* before the first [DONE] are forwarded
RECURSIVE forwarded(_)
forwarded(chunks) ==
    IF chunks = <<>> \/ Head(chunks) = sse_done
    THEN <<>>
    ELSE <<Head(chunks)>> \o forwarded(Tail(chunks))

\* b'"finish_reason":"' in chunk
has_finish_reason(chunk) == chunk # <<>> /\ chunk[1] = "finish"

StreamStart(kind) ==
    /\ spc = "idle"
    /\ translator' = kind
    /\ spc' = "connect"
    /\ out' = IF kind = "ollama" THEN <<RoleChunk>> ELSE <<>>
    /\ UNCHANGED <<chatVars, declVars, holder, toolVars, agentVars, routeVars, runVars, rateVars, fault, cancel_at,
                   finish_sent, done_seen, tail, fed>>

\* client.stream(...) and r.raise_for_status(): the upstream answers 2xx, or
\* answers an error status, or the connection fails
StreamConnect(how) ==
    /\ spc = "connect"
    /\ IF how = "ok"
       THEN /\ spc' = "relay"
            /\ UNCHANGED out
       ELSE IF translator = "mlx"
       THEN /\ out' = out \o <<ErrorChunk, sse_done>>
            /\ spc' = "closed"
       ELSE /\ out' = Append(out, ErrorChunk)
            /\ spc' = "finally"
    /\ UNCHANGED <<chatVars, declVars, holder, toolVars, agentVars, routeVars, runVars, rateVars, cancel_at,
                   translator, finish_sent, done_seen, tail, fed>>
    /\ fault' = IF how = "ok" THEN fault ELSE how

\* passthrough_sse: one chunk of the upstream body
MlxChunk(chunk) ==
    /\ translator = "mlx"
    /\ spc = "relay"
    /\ Len(fed) < MaxItems
    /\ fed' = Append(fed, chunk)
    /\ IF chunk = <<>>
       THEN UNCHANGED <<out, done_seen, tail>>
       ELSE LET hay == tail \o chunk
            IN  /\ done_seen' = (done_seen \/ Contains(hay, DoneMarker))
                /\ tail' = LastN(hay, TailLen)
                /\ out' = Append(out, chunk)
    /\ UNCHANGED <<chatVars, declVars, holder, toolVars, agentVars, routeVars, runVars, rateVars, fault, cancel_at,
                   translator, spc, finish_sent>>

\* passthrough_sse: the upstream body ends
MlxEnd ==
    /\ translator = "mlx"
    /\ spc = "relay"
    /\ out' = IF done_seen THEN out ELSE Append(out, sse_done)
    /\ spc' = "closed"
    /\ UNCHANGED <<chatVars, declVars, holder, toolVars, agentVars, routeVars, runVars, rateVars, fault, cancel_at,
                   translator, finish_sent, done_seen, tail, fed>>

\* stream_mlx_openai_chat: reading the body raises httpx.RequestError
MlxTransportError ==
    /\ translator = "mlx"
    /\ spc = "relay"
    /\ out' = out \o <<ErrorChunk, sse_done>>
    /\ spc' = "closed"
    /\ UNCHANGED <<chatVars, declVars, holder, toolVars, agentVars, routeVars, runVars, rateVars, cancel_at,
                   translator, finish_sent, done_seen, tail, fed>>
    /\ fault' = "transport_error"

\* the inner generator yields chunks; the outer loop forwards them up to [DONE]
OllamaForward(chunks) ==
    /\ out' = out \o forwarded(chunks)
    /\ finish_sent' = (finish_sent \/ \E i \in 1..Len(forwarded(chunks)) :
                                        has_finish_reason(forwarded(chunks)[i]))

\* ollama_ndjson_to_openai_sse: one line of the upstream body
OllamaLine(line) ==
    /\ translator = "ollama"
    /\ spc = "relay"
    /\ Len(fed) < MaxItems
    /\ fed' = Append(fed, line)
    /\ IF line.kind = "not_object"
       THEN /\ out' = Append(out, ErrorChunk)
            /\ spc' = "finally"
            /\ UNCHANGED finish_sent
       ELSE /\ OllamaForward(ndjson_line_chunks(line))
            /\ spc' = IF ndjson_line_ends(line) THEN "finally" ELSE "relay"
    /\ UNCHANGED <<chatVars, declVars, holder, toolVars, agentVars, routeVars, runVars, rateVars, cancel_at,
                   translator, done_seen, tail>>
    /\ fault' = IF line.kind \in {"error", "not_object"} THEN line.kind ELSE fault

\* ollama_ndjson_to_openai_sse: the upstream body ends without a done line
OllamaEnd ==
    /\ translator = "ollama"
    /\ spc = "relay"
    /\ OllamaForward(<<FinishChunk("stop"), sse_done>>)
    /\ spc' = "finally"
    /\ UNCHANGED <<chatVars, declVars, holder, toolVars, agentVars, routeVars, runVars, rateVars, fault, cancel_at,
                   translator, done_seen, tail, fed>>

\* stream_ollama_chat_as_openai: reading the body raises httpx.RequestError
OllamaTransportError ==
    /\ translator = "ollama"
    /\ spc = "relay"
    /\ out' = Append(out, ErrorChunk)
    /\ spc' = "finally"
    /\ UNCHANGED <<chatVars, declVars, holder, toolVars, agentVars, routeVars, runVars, rateVars, cancel_at,
                   translator, finish_sent, done_seen, tail, fed>>
    /\ fault' = "transport_error"

\* The client goes away.  While the translator awaits the upstream the
\* CancelledError is raised inside it: passthrough_sse and
\* ollama_ndjson_to_openai_sse catch it and return, so the MLX translator
\* ends silently and the Ollama translator goes on to its finally block (as it
\* does through `except asyncio.CancelledError: raise` while connecting).
\* While the translator is suspended at a yield the consumer is cancelled
\* instead and the generator is dropped without another event.
Cancel(where) ==
    /\ cancel_at = {}
    /\ \/ where = "await" /\ spc \in {"connect", "relay"}
       \/ where = "yield" /\ spc = "relay" /\ out # <<>>
    /\ cancel_at' = {Len(out)}
    /\ spc' = IF translator = "ollama" /\ where = "await" THEN "finally" ELSE "closed"
    /\ UNCHANGED <<chatVars, declVars, holder, toolVars, agentVars, routeVars, runVars, rateVars, fault,
                   translator, out, finish_sent, done_seen, tail, fed>>

\* stream_ollama_chat_as_openai: finally, reached with the CancelledError
\* swallowed or pending.  The first yield hands a chunk to the consumer; the
\* consumer asks for the rest (pulls) or has stopped iterating.
OllamaFinallyCancelled(pulls) ==
    /\ translator = "ollama"
    /\ spc = "finally"
    /\ cancel_at # {}
    /\ LET chunks == (IF finish_sent THEN <<>> ELSE <<FinishChunk("stop")>>) \o <<sse_done>>
       IN  out' = out \o (IF pulls THEN chunks ELSE <<Head(chunks)>>)
    /\ finish_sent' = TRUE
    /\ spc' = "closed"
    /\ UNCHANGED <<chatVars, declVars, holder, toolVars, agentVars, routeVars, runVars, rateVars, fault, cancel_at,
                   translator, done_seen, tail, fed>>

\* stream_ollama_chat_as_openai: finally
OllamaFinally ==
    /\ translator = "ollama"
    /\ spc = "finally"
    /\ cancel_at = {}
    /\ out' = out \o (IF finish_sent THEN <<>> ELSE <<FinishChunk("stop")>>) \o <<sse_done>>
    /\ finish_sent' = TRUE
    /\ spc' = "closed"
    /\ UNCHANGED <<chatVars, declVars, holder, toolVars, agentVars, routeVars, runVars, rateVars, fault, cancel_at,
                   translator, done_seen, tail, fed>>

StreamNext ==
    \/ \E k \in {"ollama", "mlx"} : StreamStart(k)
    \/ \E h \in {"ok", "http_error", "connect_error"} : StreamConnect(h)
    \/ \E c \in UpstreamChunks : MlxChunk(c)
    \/ MlxEnd
    \/ MlxTransportError
    \/ \E l \in OllamaLines : OllamaLine(l)
    \/ OllamaEnd
    \/ OllamaTransportError
    \/ OllamaFinally
    \/ \E w \in {"await", "yield"} : Cancel(w)
    \/ \E p \in BOOLEAN : OllamaFinallyCancelled(p)

StreamInit == Init /\ OneRegistry

StreamSpec == StreamInit /\ [][StreamNext]_vars

\* ------------------------------------- agent_runtime_v1.py: run_agent_v1
\* max_tool_io is not None and total_tool_io > max_tool_io
io_budget_exceeded(budget, total) == \E b \in budget : total > b

\* a loop that runs one iteration beyond max_turns
turn_limit_off_by_one(t, n) == t > n

\* for turn in range(max_turns): the range is exhausted
turn_limit_reached(t, n) == t >= n

\* an emitter that puts the event before the others
_emit_first(evs, ev) == <<ev>> \o evs

\* _emit: events.append(ev)
_emit(evs, ev) == Append(evs, ev)

\* raise HTTPException(...) inside the try: the except clause keeps the detail
Raise(detail) ==
    /\ error' = detail
    /\ ok' = FALSE
    /\ apc' = "final"

\* an upstream or tool call begins
BeginCall ==
    calls_after' = IF io_budget_exceeded(max_tool_io, total_tool_io)
                   THEN calls_after + 1 ELSE calls_after

\* run_agent_v1 up to the loop: the run_started event, the max_turns check
AgentStart(T, budget) ==
    /\ apc = "idle"
    /\ max_turns' = T
    /\ max_tool_io' = budget
    /\ events' = _emit(<<>>, "run_started")
    /\ turn' = 0
    /\ total_tool_io' = 0
    /\ IF T <= 0
       THEN Raise("agent max_turns must be > 0")
       ELSE apc' = "turn" /\ UNCHANGED <<ok, error>>
    /\ UNCHANGED <<chatVars, declVars, holder, toolVars, streamVars, routeVars, runVars, rateVars, pending, http_status, calls_after>>

\* the head of one iteration: the loop's end, the runtime check, the PLAN call
AgentTurn(late) ==
    /\ apc = "turn"
    /\ IF turn_limit_reached(turn, max_turns)
       THEN Raise("agent turn limit exceeded") /\ UNCHANGED calls_after
       ELSE IF late
       THEN Raise("agent runtime budget exceeded") /\ UNCHANGED calls_after
       ELSE apc' = "plan" /\ BeginCall /\ UNCHANGED <<ok, error>>
    /\ UNCHANGED <<chatVars, declVars, holder, toolVars, streamVars, routeVars, runVars, rateVars, max_turns, max_tool_io, turn,
                   pending, total_tool_io, events, http_status>>

\* the PLAN call returns or raises; on return the ACTION call begins
AgentPlan(raises) ==
    /\ apc = "plan"
    /\ IF raises
       THEN Raise("upstream error") /\ UNCHANGED <<events, calls_after>>
       ELSE /\ events' = _emit(events, "plan")
            /\ apc' = "action"
            /\ BeginCall
            /\ UNCHANGED <<ok, error>>
    /\ UNCHANGED <<chatVars, declVars, holder, toolVars, streamVars, routeVars, runVars, rateVars, max_turns, max_tool_io, turn,
                   pending, total_tool_io, http_status>>

\* the ACTION call returns a message with n tool calls, or raises
AgentAction(raises, n) ==
    /\ apc = "action"
    /\ IF raises
       THEN Raise("upstream error") /\ UNCHANGED <<events, pending>>
       ELSE /\ events' = _emit(events, "assistant")
            /\ pending' = n
            /\ IF n = 0
               THEN ok' = TRUE /\ apc' = "final" /\ UNCHANGED error
               ELSE apc' = "tools" /\ UNCHANGED <<ok, error>>
    /\ UNCHANGED <<chatVars, declVars, holder, toolVars, streamVars, routeVars, runVars, rateVars, max_turns, max_tool_io, turn,
                   total_tool_io, http_status, calls_after>>

\* one tool call of the action: the name check, the runtime check,
\* run_tool_call, the tool event, the I/O budget check
AgentTool(valid_name, late, io_bytes) ==
    /\ apc = "tools"
    /\ IF ~valid_name
       THEN /\ Raise("invalid tool call from model")
            /\ UNCHANGED <<events, total_tool_io, pending, turn, calls_after>>
       ELSE IF late
       THEN /\ Raise("agent runtime budget exceeded")
            /\ UNCHANGED <<events, total_tool_io, pending, turn, calls_after>>
       ELSE /\ BeginCall
            /\ total_tool_io' = total_tool_io + io_bytes
            /\ events' = _emit(events, "tool")
            /\ IF io_budget_exceeded(max_tool_io, total_tool_io + io_bytes)
               THEN Raise("tool IO budget exceeded") /\ UNCHANGED <<pending, turn>>
               ELSE /\ pending' = pending - 1
                    /\ turn' = IF pending = 1 THEN turn + 1 ELSE turn
                    /\ apc' = IF pending = 1 THEN "turn" ELSE "tools"
                    /\ UNCHANGED <<ok, error>>
    /\ UNCHANGED <<chatVars, declVars, holder, toolVars, streamVars, routeVars, runVars, rateVars, max_turns, max_tool_io, http_status>>

\* the final event, and agent_routes.agent_run's JSONResponse(payload)
AgentFinish ==
    /\ apc = "final"
    /\ events' = _emit(events, IF ok THEN "run_completed" ELSE "run_failed")
    /\ http_status' = 200
    /\ apc' = "done"
    /\ UNCHANGED <<chatVars, declVars, holder, toolVars, streamVars, routeVars, runVars, rateVars, max_turns, max_tool_io, turn,
                   pending, total_tool_io, ok, error, calls_after>>

AgentBudgets == {{}} \cup { {b} : b \in 0..MaxBudget }

AgentNext ==
    \/ \E T \in 0..MaxTurns, budget \in AgentBudgets : AgentStart(T, budget)
    \/ \E late \in BOOLEAN : AgentTurn(late)
    \/ \E raises \in BOOLEAN : AgentPlan(raises)
    \/ \E raises \in BOOLEAN, n \in 0..MaxToolCalls : AgentAction(raises, n)
    \/ \E valid_name \in BOOLEAN, late \in BOOLEAN, io_bytes \in 0..MaxIo :
          AgentTool(valid_name, late, io_bytes)
    \/ AgentFinish

AgentInit == Init /\ OneRegistry

AgentSpec == AgentInit /\ [][AgentNext]_vars

\* ------------------------------------------- tools_bus.py: _rate_limit
\* Token levels are counted in TokenUnit-ths of a token, so that a rate
\* below one token per tick leaves a fraction in the bucket.
BearerTokens == {"a", "b"}

Min(a, b) == IF a <= b THEN a ELSE b

\* a refill that is not capped at the capacity
refill_uncapped(tokens, dt, rps, burst) == tokens + dt * rps

\* tokens = min(float(burst), tokens + dt * rps)
refill(tokens, dt, rps, burst) == Min(burst * TokenUnit, tokens + dt * rps)

\* _rate_limit under _RATE_LOCK: the bucket afterwards and the outcome
\* (status 200 stands for returning without an exception)
_rate_limit(state, tok, now, pol) ==
    LET st == IF tok \in DOMAIN state THEN state[tok]
              ELSE [tokens |-> pol.burst * TokenUnit, t |-> now]
        dt == IF now - st.t > 0 THEN now - st.t ELSE 0
        tokens == refill(st.tokens, dt, pol.rps, pol.burst)
        store(n) == [k \in DOMAIN state \cup {tok} |->
                       IF k = tok THEN [tokens |-> n, t |-> now] ELSE state[k]]
    IN  IF pol.rps <= 0 \/ pol.burst <= 0
        THEN [state |-> state,
              resp |-> [tok |-> tok, status |-> 200, error_type |-> None, level |-> 0]]
        ELSE IF tokens < TokenUnit
        THEN [state |-> store(tokens),
              resp |-> [tok |-> tok, status |-> 429, error_type |-> "rate_limited",
                        level |-> tokens]]
        ELSE [state |-> store(tokens - TokenUnit),
              resp |-> [tok |-> tok, status |-> 200, error_type |-> None, level |-> tokens]]

\* one request to a /v1/tools endpoint reaches _rate_limit
RateLimit(tok) ==
    LET r == _rate_limit(_RATE_STATE, tok, clock, rate_policy)
        limited == tok \in DOMAIN r.state
        before == IF tok \in DOMAIN admitted THEN admitted[tok] ELSE <<>>
    IN  /\ _RATE_STATE' = r.state
        /\ rate_resp' = r.resp
        /\ admitted' = IF limited /\ r.resp.status = 200
                       THEN [k \in DOMAIN admitted \cup {tok} |->
                               IF k = tok THEN Append(before, clock) ELSE admitted[k]]
                       ELSE admitted
        /\ UNCHANGED <<chatVars, declVars, holder, toolVars, streamVars, agentVars, routeVars, runVars, clock,
                       rate_policy>>

\* time passes
Tick ==
    /\ clock < MaxClock
    /\ clock' = clock + 1
    /\ UNCHANGED <<chatVars, declVars, holder, toolVars, streamVars, agentVars, routeVars, runVars, _RATE_STATE,
                   rate_policy, admitted, rate_resp>>

RateNext ==
    \/ \E tok \in BearerTokens : RateLimit(tok)
    \/ Tick

RateInit ==
    /\ GatewayInit
    /\ DeclStart(NoDigest, NoFile)
    /\ OneRegistry
    /\ RouterStart(DefaultRouterConfig, EmptyMap)
    /\ \E rps \in 0..MaxRps, burst \in 0..MaxBurst : RateStart([rps |-> rps, burst |-> burst])
    /\ RunStart(DefaultAgentSettings, EmptyMap)

RateSpec == RateInit /\ [][RateNext]_vars

\* ---------------------- agent_runtime_v1.py: admission of agent runs
\* the agent names a run request may carry
AgentNames == {"default", "heavy", "ghost"}

\* the tool names a model may call
CalledTools == {"noop", "write_file", "shell", "ghost"}

\* AgentSpecModel, as far as admission and the tool grant read it;
\* tools_allowlist is {} for None, else {the set of listed names}
AgentSpecModel(tier, allowlist) == [model |-> "fast", tier |-> tier, tools_allowlist |-> allowlist]

\* the contents AGENT_SPECS_PATH may have: agent name -> spec; the empty
\* map stands for a missing, unreadable or empty file
AgentSpecFiles ==
    { EmptyMap,
      [a \in {"default", "heavy"} |->
          IF a = "default" THEN AgentSpecModel(0, {})
          ELSE AgentSpecModel(1, {{"write_file", "shell"}})],
      [a \in {"default", "heavy"} |->
          IF a = "default" THEN AgentSpecModel(0, {{"noop", "shell"}})
          ELSE AgentSpecModel(2, {{}})],
      [a \in {"heavy"} |-> AgentSpecModel(0, {{"noop", "ghost"}})] }

load_agent_specs(file) ==
    IF DOMAIN file # {}
    THEN file
    ELSE [a \in {"default"} |-> AgentSpecModel(0, {})]

\* specs.get(run_req.agent) or specs.get("default"): {} for None
resolve_spec(specs, agent) ==
    IF agent \in DOMAIN specs THEN {specs[agent]}
    ELSE IF "default" \in DOMAIN specs THEN {specs["default"]}
    ELSE {}

tools_for_tier(tier) ==
    LET t0 == {"read_file", "http_fetch_local", "noop"}
        t1 == t0 \cup {"write_file", "memory_v2_upsert", "memory_v2_search",
                       "memory_v2_list", "memory_v2_delete", "heartmula_generate"}
        t2 == t1 \cup {"shell"}
    IN  IF tier <= 0 THEN t0 ELSE IF tier = 1 THEN t1 ELSE t2

\* allowed = tools_for_tier(tier), intersected with the allowlist when
\* `if spec.tools_allowlist:` holds (the list is neither None nor empty)
allowed_tools(spec) ==
    IF \E allow2 \in spec.tools_allowlist : allow2 # {}
    THEN tools_for_tier(spec.tier) \cap (CHOOSE allow2 \in spec.tools_allowlist : TRUE)
    ELSE tools_for_tier(spec.tier)

\* the names whose schema is offered to the model
_tool_specs_for_names(names) == { n \in names : n \in DOMAIN TOOL_SCHEMAS }

\* `int(getattr(S, name, d) or d)`
OrDefault(v, d) == IF v = 0 THEN d ELSE v

Max(a, b) == IF a >= b THEN a ELSE b

AdmissionProfile(c, q) == [concurrency |-> c, queue_max |-> q]

_profile(S, backend) ==
    LET conc == IF backend = "mlx"
                THEN OrDefault(S.AGENT_BACKEND_CONCURRENCY_MLX, 2)
                ELSE OrDefault(S.AGENT_BACKEND_CONCURRENCY_OLLAMA, 4)
        queue_max == OrDefault(S.AGENT_QUEUE_MAX, 32)
    IN  AdmissionProfile(Max(1, conc), Max(0, queue_max))

\* the position of run r in a semaphore's FIFO of waiters, 0 when absent
Position(q, r) == IF \E i \in 1..Len(q) : q[i] = r
                  THEN CHOOSE i \in 1..Len(q) : q[i] = r ELSE 0

Without(q, r) == SelectSeq(q, LAMBDA x : x # r)

\* a shed rule that lets tier 1 through
shed_heavy_above_one(S, tier) == S.AGENT_SHED_HEAVY /\ tier >= 2

\* DeterministicAdmissionControl.acquire refuses tier >= 1 in shed mode
shed_heavy(S, tier) == S.AGENT_SHED_HEAVY /\ tier >= 1

\* the queue_full test of acquire
queue_full(prof, waiters, backend) == prof.queue_max >= 0 /\ waiters[backend] >= prof.queue_max

\* a queue_full test that admits one waiter more
queue_full_late(prof, waiters, backend) == prof.queue_max >= 0 /\ waiters[backend] > prof.queue_max

\* a test that makes a new semaphore on every acquire
stale_sem_always(s, prof) == TRUE

\* `sem is None or getattr(sem, "_initial_value", None) != prof.concurrency`
stale_sem(s, prof) == s._initial_value # prof.concurrency

\* what stays of a run's locals once its response is made: the history
Settled(rec) == [NoRun EXCEPT !.configured = rec.configured, !.tier = rec.tier, !.leased = rec.leased,
                              !.upstream = rec.upstream, !.transcript = rec.transcript]

\* the HTTPException leaves run_agent_v1: FastAPI answers with its status
RunRefuse(r, status, detail, rec) ==
    /\ run_resp' = [run_resp EXCEPT ![r] = [status |-> status, error |-> detail]]
    /\ run' = [run EXCEPT ![r] = Settled(rec)]
    /\ rpc' = [rpc EXCEPT ![r] = "done"]

\* run_agent_v1 from its first line to the suspension in acquire's
\* wait_for: the spec, the tool grant, the route (backend is its result),
\* the shed rule, the semaphore's creation, the queue_full test.  Runs are
\* numbered in their order of arrival.
RunArrive(r, agent, backend) ==
    /\ rpc[r] = "idle"
    /\ \A q \in Runs : q < r => rpc[q] # "idle"
    /\ LET found == resolve_spec(load_agent_specs(agent_specs_file), agent)
       IN  IF found = {}
           THEN /\ RunRefuse(r, 400, "unknown agent", NoRun)
                /\ UNCHANGED <<_sem, _waiters>>
           ELSE LET spec == CHOOSE s \in found : TRUE
                    allowed == allowed_tools(spec)
                    prof == _profile(agent_settings, backend)
                    bsem == IF stale_sem(_sem[backend], prof)
                            THEN [_initial_value |-> prof.concurrency,
                                  _value |-> prof.concurrency, _waiters |-> <<>>]
                            ELSE _sem[backend]
                    rec == [NoRun EXCEPT !.configured =
                                             agent \in DOMAIN load_agent_specs(agent_specs_file),
                                         !.backend = backend,
                                         !.tier = spec.tier,
                                         !.declared = spec.tools_allowlist,
                                         !.allowed = allowed,
                                         !.offered = _tool_specs_for_names(allowed)]
                IN  IF shed_heavy(agent_settings, spec.tier)
                    THEN RunRefuse(r, 429, "shed_heavy", rec) /\ UNCHANGED <<_sem, _waiters>>
                    ELSE IF queue_full(prof, _waiters, backend)
                    THEN /\ RunRefuse(r, 429, "queue_full", rec)
                         /\ _sem' = [_sem EXCEPT ![backend] = bsem]
                         /\ UNCHANGED _waiters
                    ELSE /\ _waiters' = [_waiters EXCEPT ![backend] = @ + 1]
                         /\ _sem' = [_sem EXCEPT ![backend] =
                                        [bsem EXCEPT !._waiters = Append(@, r)]]
                         /\ run' = [run EXCEPT ![r] = rec]
                         /\ rpc' = [rpc EXCEPT ![r] = "queued"]
                         /\ UNCHANGED run_resp
    /\ UNCHANGED <<chatVars, declVars, holder, toolVars, streamVars, agentVars, routeVars, rateVars,
                   agent_settings, agent_specs_file>>

\* a waiter count that drops on a lease and on a timeout only
leave_queue_unless_cancelled(waiters, backend, how) ==
    IF how = "cancelled" THEN waiters ELSE [waiters EXCEPT ![backend] = Max(0, @ - 1)]

\* acquire's finally, on every way out of wait_for (how: lease, timeout,
\* cancelled): self._waiters[backend] = max(0, self._waiters[backend] - 1).
\* self._lock is never held across a suspension, so `async with self._lock`
\* enters at once.
leave_queue(waiters, backend, how) == [waiters EXCEPT ![backend] = Max(0, @ - 1)]

\* sem.acquire() returns inside wait_for: the waiter count drops, the
\* lease is made, run_started is emitted and the PLAN call begins
RunGrant(r) ==
    /\ rpc[r] = "queued"
    /\ LET b == run[r].backend
           pos == Position(_sem[b]._waiters, r)
       IN  /\ pos <= _sem[b]._value
           /\ _sem' = [_sem EXCEPT ![b] = [@ EXCEPT !._value = @ - 1,
                                                    !._waiters = Without(@, r)]]
           /\ _waiters' = leave_queue(_waiters, b, "lease")
    /\ run' = [run EXCEPT ![r].lease = TRUE, ![r].leased = TRUE, ![r].upstream = TRUE]
    /\ rpc' = [rpc EXCEPT ![r] = "running"]
    /\ UNCHANGED <<chatVars, declVars, holder, toolVars, streamVars, agentVars, routeVars, rateVars,
                   agent_settings, agent_specs_file, run_resp>>

\* a cancellation that loses a permit
cancel_acquire_leaky(s, r) == [s EXCEPT !._waiters = Without(@, r), !._value = @ - 1]

\* wait_for cancels the pending sem.acquire(): the run leaves the
\* semaphore's waiters and the semaphore's value stays
cancel_acquire(s, r) == [s EXCEPT !._waiters = Without(@, r)]

\* wait_for's timer fires with the acquire still pending
RunTimeout(r) ==
    /\ rpc[r] = "queued"
    /\ LET b == run[r].backend
           pos == Position(_sem[b]._waiters, r)
       IN  /\ pos > _sem[b]._value
           /\ _sem' = [_sem EXCEPT ![b] = cancel_acquire(@, r)]
           /\ _waiters' = leave_queue(_waiters, b, "timeout")
    /\ RunRefuse(r, 429, "queue_timeout", run[r])
    /\ UNCHANGED <<chatVars, declVars, holder, toolVars, streamVars, agentVars, routeVars, rateVars,
                   agent_settings, agent_specs_file>>

\* The client of POST /v1/agent/run goes away while the run waits in
\* wait_for: CancelledError is raised there, the pending sem.acquire() is
\* cancelled, the finally block runs, and no response is sent.
RunCancel(r) ==
    /\ rpc[r] = "queued"
    /\ LET b == run[r].backend
       IN  /\ _sem' = [_sem EXCEPT ![b] = cancel_acquire(@, r)]
           /\ _waiters' = leave_queue(_waiters, b, "cancelled")
    /\ RunRefuse(r, 499, "cancelled", run[r])
    /\ UNCHANGED <<chatVars, declVars, holder, toolVars, streamVars, agentVars, routeVars, rateVars,
                   agent_settings, agent_specs_file>>

\* the ACTION call returns a tool call for `name`: run_tool_call with the
\* run's grant, the tool event, the next turn's PLAN call
RunAct(r, name) ==
    /\ rpc[r] = "running"
    /\ run[r].acts < MaxActs
    /\ run' = [run EXCEPT ![r].acts = @ + 1,
                          ![r].executed = IF name \in run[r].allowed
                                          THEN {name} ELSE {}]
    /\ UNCHANGED <<chatVars, declVars, holder, toolVars, streamVars, agentVars, routeVars, rateVars,
                   agent_settings, agent_specs_file, _sem, _waiters, rpc, run_resp>>

\* the run ends, completed or failed: the last event, _persist_run, the
\* lease's release on leaving `async with`, agent_run's JSONResponse
RunFinish(r) ==
    /\ rpc[r] = "running"
    /\ run' = [run EXCEPT ![r] = Settled([run[r] EXCEPT !.transcript = TRUE])]
    /\ _sem' = [_sem EXCEPT ![run[r].backend]._value = @ + 1]
    /\ run_resp' = [run_resp EXCEPT ![r] = [status |-> 200, error |-> None]]
    /\ rpc' = [rpc EXCEPT ![r] = "done"]
    /\ UNCHANGED <<chatVars, declVars, holder, toolVars, streamVars, agentVars, routeVars, rateVars,
                   agent_settings, agent_specs_file, _waiters>>

RunNext ==
    \/ \E r \in Runs, agent \in AgentNames, backend \in RouteBackends : RunArrive(r, agent, backend)
    \/ \E r \in Runs : RunGrant(r)
    \/ \E r \in Runs : RunTimeout(r)
    \/ \E r \in Runs, name \in CalledTools : RunAct(r, name)
    \/ \E r \in Runs : RunFinish(r)

\* the admission settings a deployment may carry
AgentSettings ==
    { S \in [AGENT_SHED_HEAVY : BOOLEAN,
             AGENT_BACKEND_CONCURRENCY_OLLAMA : 0..MaxConc,
             AGENT_BACKEND_CONCURRENCY_MLX : 0..MaxConc,
             AGENT_QUEUE_MAX : 0..MaxQueue] : S.AGENT_SHED_HEAVY }

\* runs of the configured agents with the shed flag set or cleared, under
\* the default admission settings but for one agent slot on mlx
RunInit ==
    /\ GatewayInit
    /\ DeclStart(NoDigest, NoFile)
    /\ OneRegistry
    /\ RouterStart(DefaultRouterConfig, EmptyMap)
    /\ RateStart(DefaultRatePolicy)
    /\ \E shed \in BOOLEAN, file \in AgentSpecFiles :
          RunStart([DefaultAgentSettings EXCEPT !.AGENT_SHED_HEAVY = shed,
                                             !.AGENT_BACKEND_CONCURRENCY_MLX = 1], file)

\* runs of the built-in default agent under every admission setting
QueueInit ==
    /\ GatewayInit
    /\ DeclStart(NoDigest, NoFile)
    /\ OneRegistry
    /\ RouterStart(DefaultRouterConfig, EmptyMap)
    /\ RateStart(DefaultRatePolicy)
    /\ \E S \in AgentSettings : RunStart(S, EmptyMap)

RunSpec == RunInit /\ [][RunNext]_vars

QueueSpec == QueueInit /\ [][RunNext]_vars

\* admission alone (what a run does while it holds its lease does not touch
\* the controller), with clients that may go away while their run is queued
CancelNext ==
    \/ \E r \in Runs, agent \in AgentNames, backend \in RouteBackends : RunArrive(r, agent, backend)
    \/ \E r \in Runs : RunGrant(r)
    \/ \E r \in Runs : RunTimeout(r)
    \/ \E r \in Runs : RunCancel(r)
    \/ \E r \in Runs : RunFinish(r)

CancelSpec == QueueInit /\ [][CancelNext]_vars

\* the same runs where both backends have the same ceiling and the queue
\* bound is MaxQueue
QueueLiveInit ==
    /\ QueueInit
    /\ agent_settings.AGENT_BACKEND_CONCURRENCY_OLLAMA = agent_settings.AGENT_BACKEND_CONCURRENCY_MLX
    /\ agent_settings.AGENT_QUEUE_MAX = MaxQueue

\* wait_for ends: by the acquire's completion or by its timer
QueueLiveSpec ==
    /\ QueueLiveInit
    /\ [][RunNext]_vars
    /\ \A r \in Runs : WF_vars(RunGrant(r) \/ RunTimeout(r))

\* ------------------------------------ router.py, model_aliases.py: routing
\* A string is a sequence of tokens: " " is white space, "ollama:" and "mlx:"
\* are the backend prefixes, "AUTO" is "auto" in upper case, and every other
\* token is a run of lower-case characters holding no prefix.
ModelTokens ==
    {" ", "ollama:", "mlx:", "auto", "AUTO", "default", "ollama", "mlx", "ollama-default",
     "mlx-default", "qwen"}

RECURSIVE Strings(_)
Strings(n) ==
    IF n = 0 THEN {<<>>}
    ELSE Strings(n - 1) \cup { Append(w, t) : w \in Strings(n - 1), t \in ModelTokens }

\* str.strip()
RECURSIVE lstrip(_)
lstrip(w) == IF w # <<>> /\ Head(w) = " " THEN lstrip(Tail(w)) ELSE w

RECURSIVE rstrip(_)
rstrip(w) == IF w # <<>> /\ w[Len(w)] = " " THEN rstrip(SubSeq(w, 1, Len(w) - 1)) ELSE w

strip(w) == rstrip(lstrip(w))

\* str.lower()
lower(w) == [i \in 1..Len(w) |-> IF w[i] = "AUTO" THEN "auto" ELSE w[i]]

\* str.startswith(prefix), for a backend prefix
startswith(w, prefix) == w # <<>> /\ Head(w) = prefix

Str(t) == <<t>>

\* the models of the settings; none of them is a sentinel
RouterConfigs ==
    { [default_backend |-> b,
       ollama_strong_model |-> Str("ollama-strong"),
       ollama_fast_model |-> Str("ollama-fast"),
       mlx_strong_model |-> Str("mlx-strong"),
       mlx_fast_model |-> Str("mlx-fast"),
       long_context_chars_threshold |-> MaxSize] : b \in RouteBackends }

ModelAlias(b, m, cw, t) == [backend |-> b, upstream_model |-> m, context_window |-> cw, tools |-> t]

\* model_aliases._default_aliases
_default_aliases(cfg) ==
    LET d == cfg.default_backend
        strong_for == IF d = "ollama" THEN cfg.ollama_strong_model ELSE cfg.mlx_strong_model
        fast_for == IF d = "ollama" THEN cfg.ollama_fast_model ELSE cfg.mlx_fast_model
    IN  (Str("default") :> ModelAlias(d, strong_for, {}, {TRUE}))
        @@ (Str("fast") :> ModelAlias(d, fast_for, {}, {FALSE}))
        @@ (Str("coder") :> ModelAlias("ollama", cfg.ollama_strong_model, {}, {TRUE}))
        @@ (Str("long") :> ModelAlias("mlx", cfg.mlx_strong_model,
                                      {cfg.long_context_chars_threshold}, {FALSE}))

\* the values an alias file may give: a string, or an object
AliasString(w) == [kind |-> "str", s |-> w]
AliasObject(b, m, cw, t) == [kind |-> "dict", backend |-> b, model |-> m, context |-> cw, tools |-> t]

\* model_aliases._parse_alias_value: {} for None, else {alias}
_parse_alias_value(v) ==
    IF v.kind = "str"
    THEN LET w == strip(v.s)
         IN  IF startswith(w, "ollama:") THEN {ModelAlias("ollama", Tail(w), {}, {})}
             ELSE IF startswith(w, "mlx:") THEN {ModelAlias("mlx", Tail(w), {}, {})}
             ELSE {}
    ELSE LET b == lower(strip(v.backend))
             m == strip(v.model)
             model == IF startswith(m, "ollama:") \/ startswith(m, "mlx:") THEN Tail(m) ELSE m
         IN  IF b \notin {Str("ollama"), Str("mlx")} \/ m = <<>>
             THEN {}
             ELSE {ModelAlias(b[1], model, { c \in v.context : c > 0 }, v.tools)}

\* the alias files of the model: none, and three with overrides
AliasFiles ==
    { EmptyMap,
      (Str("fast") :> AliasObject(Str("ollama"), Str("mlx"), {}, {})),
      (Str("default") :> AliasObject(Str("mlx"), Str("qwen"), {}, {FALSE}))
        @@ (Str("coder") :> AliasString(<<" ", "ollama:", "qwen">>))
        @@ (Str("long") :> AliasObject(Str("mlx"), <<"mlx:", "qwen">>, {1}, {})),
      (<<" ", "qwen">> :> AliasString(<<"mlx:", "auto">>))
        @@ (Str("coder") :> AliasObject(Str("ollama"), Str("qwen"), {}, {FALSE}))
        @@ (Str("default") :> AliasObject(Str("ollama"), Str("qwen"), {0}, {FALSE}))
        @@ (Str("auto") :> AliasString(Str("qwen"))) }

\* model_aliases.load_aliases: the defaults, overridden by the file's entries
load_aliases(cfg, file) ==
    LET parsed == { k \in DOMAIN file : _parse_alias_value(file[k]) # {} }
        keys == { lower(strip(k)) : k \in parsed }
        entry(key) == CHOOSE a \in UNION { _parse_alias_value(file[k]) :
                                            k \in { x \in parsed : lower(strip(x)) = key } } : TRUE
    IN  [key \in keys \cup DOMAIN _default_aliases(cfg) |->
            IF key \in keys THEN entry(key) ELSE _default_aliases(cfg)[key]]

\* get_aliases reading the alias file on every call
get_aliases_uncached(cache, cfg, file) == {load_aliases(cfg, file)}

\* model_aliases.get_aliases: the cache afterwards; it is loaded once
get_aliases(cache, cfg, file) == IF cache = {} THEN {load_aliases(cfg, file)} ELSE cache

\* model_aliases.get_alias on a loaded table: {} for None, else {alias}
get_alias(aliases, alias_name) ==
    LET k == lower(strip(alias_name))
    IN  IF k # <<>> /\ k \in DOMAIN aliases THEN {aliases[k]} ELSE {}

RouteDecision(b, m, r) == [backend |-> b, model |-> m, reason |-> r]

\* router._choose_backend_by_model
_choose_backend_by_model(model, default_backend) ==
    LET m == lower(strip(model))
    IN  IF startswith(m, "ollama:") THEN "ollama"
        ELSE IF startswith(m, "mlx:") THEN "mlx"
        ELSE IF m \in {Str("ollama"), Str("ollama-default")} THEN "ollama"
        ELSE IF m \in {Str("mlx"), Str("mlx-default")} THEN "mlx"
        ELSE default_backend

\* router._normalize_model
_normalize_model(model, backend, cfg) ==
    LET m0 == strip(model)
    IN  IF backend = "ollama"
        THEN LET m == IF startswith(m0, "ollama:") THEN Tail(m0) ELSE m0
             IN  IF lower(m) \in {Str("default"), Str("ollama"), Str("ollama-default"),
                                  Str("auto"), <<>>}
                 THEN cfg.ollama_strong_model
                 ELSE m
        ELSE LET m == IF startswith(m0, "mlx:") THEN Tail(m0) ELSE m0
             IN  IF lower(m) \in {Str("default"), Str("mlx"), Str("mlx-default"),
                                  Str("auto"), <<>>}
                 THEN cfg.mlx_strong_model
                 ELSE m

\* a RouteDecision that keeps the default backend whatever the alias says
ViaAliasOnDefaultBackend(a, cfg, reason) ==
    RouteDecision(cfg.default_backend,
                  _normalize_model(a.upstream_model, cfg.default_backend, cfg), reason)

\* a RouteDecision from an alias
ViaAlias(a, cfg, reason) ==
    RouteDecision(a.backend, _normalize_model(a.upstream_model, a.backend, cfg), reason)

Strong(backend, cfg, reason) ==
    RouteDecision(backend,
                  IF backend = "ollama" THEN cfg.ollama_strong_model ELSE cfg.mlx_strong_model,
                  reason)

\* decide_route below the early returns: the policy tiers
route_by_policy(cfg, aliases, in, backend) ==
    LET long == get_alias(aliases, Str("long"))
        long_threshold ==
            IF \E a \in long : a.context_window # {}
            THEN CHOOSE c \in UNION { a.context_window : a \in long } : TRUE
            ELSE cfg.long_context_chars_threshold
        default == get_alias(aliases, Str("default"))
        coder == get_alias(aliases, Str("coder"))
        fast == get_alias(aliases, Str("fast"))
        hdr_req_type == lower(strip(in.x_request_type))
        is_coding ==
            /\ in.enable_request_type
            /\ IF hdr_req_type \in {Str("coding"), Str("code"), Str("dev")} THEN TRUE
               ELSE IF hdr_req_type \in {Str("chat"), Str("general")} THEN FALSE
               ELSE in.coding_text
    IN  IF in.has_tools
        THEN IF \E a \in default : a.tools # {FALSE}
             THEN ViaAlias(CHOOSE a \in default : TRUE, cfg, "policy:tools->alias:default")
             ELSE IF \E a \in coder : a.tools # {FALSE}
             THEN ViaAlias(CHOOSE a \in coder : TRUE, cfg, "policy:tools->alias:coder")
             ELSE Strong(backend, cfg, "policy:tools->strong")
        ELSE IF in.size >= long_threshold
        THEN IF long # {}
             THEN ViaAlias(CHOOSE a \in long : TRUE, cfg, "policy:long_context->alias:long")
             ELSE IF cfg.mlx_strong_model # <<>>
             THEN RouteDecision("mlx", cfg.mlx_strong_model, "policy:long_context->mlx")
             ELSE Strong(backend, cfg, "policy:long_context->strong")
        ELSE IF is_coding
        THEN IF coder # {}
             THEN ViaAlias(CHOOSE a \in coder : TRUE, cfg, "policy:coding->alias:coder")
             ELSE Strong(backend, cfg, "policy:coding->strong")
        ELSE IF fast # {}
        THEN ViaAlias(CHOOSE a \in fast : TRUE, cfg, "policy:fast->alias:fast")
        ELSE RouteDecision(backend,
                           IF backend = "ollama" THEN cfg.ollama_fast_model ELSE cfg.mlx_fast_model,
                           "policy:fast")

\* a header test that wants the bare backend name
route_by_header_exact(in) == in.x_backend \in {Str("ollama"), Str("mlx")}

\* decide_route returns before it consults the alias table
route_by_header(in) == lower(strip(in.x_backend)) \in {Str("ollama"), Str("mlx")}

\* router.decide_route, given the alias table get_aliases() returns
decide_route(cfg, aliases, in) ==
    LET hdr_backend == lower(strip(in.x_backend))
        stripped == strip(in.request_model)
        request_model_norm == IF lower(stripped) = Str("auto") THEN <<>> ELSE stripped
        request_model_key == lower(request_model_norm)
        backend == _choose_backend_by_model(request_model_norm, cfg.default_backend)
        explicitly_pinned ==
            \/ startswith(request_model_key, "ollama:")
            \/ startswith(request_model_key, "mlx:")
            \/ request_model_key \in {Str("ollama"), Str("mlx"), Str("ollama-default"),
                                      Str("mlx-default")}
    IN  IF route_by_header(in)
        THEN RouteDecision(hdr_backend[1], _normalize_model(in.request_model, hdr_backend[1], cfg),
                           "override:x-backend")
        ELSE IF request_model_key # <<>> /\ request_model_key \in DOMAIN aliases
        THEN ViaAlias(aliases[request_model_key], cfg, "alias:model")
        ELSE IF explicitly_pinned
        THEN RouteDecision(backend, _normalize_model(request_model_norm, backend, cfg), "pinned:model")
        ELSE IF ~in.enable_policy
        THEN RouteDecision(backend, _normalize_model(request_model_norm, backend, cfg), "direct:model")
        ELSE route_by_policy(cfg, aliases, in, backend)

\* the arguments of a call of decide_route
RouteInput(m, xb, xr, n, code, tools, policy, reqtype) ==
    [request_model |-> m, x_backend |-> xb, x_request_type |-> xr, size |-> n,
     coding_text |-> code, has_tools |-> tools, enable_policy |-> policy,
     enable_request_type |-> reqtype]

RouteInputs ==
    { RouteInput(m, xb, xr, n, code, tools, policy, reqtype) :
        m \in Strings(MaxModelLen),
        xb \in {<<>>, Str("ollama"), <<" ", "mlx">>},
        xr \in {<<>>, Str("coding"), Str("chat")},
        n \in {0, MaxSize},
        code \in {TRUE}, tools \in BOOLEAN, policy \in BOOLEAN, reqtype \in BOOLEAN }

\* a handler calls decide_route
RouteCall(in) ==
    /\ route_in = NoRoute
    /\ route_in' = in
    /\ UNCHANGED <<chatVars, declVars, holder, toolVars, streamVars, agentVars, rateVars, runVars, _ALIASES_CACHE, alias_file,
                   router_config, route_out, route_loads, remembered>>

\* decide_route runs: get_aliases loads the table on its first use, then the
\* decision is made; keep says whether this call is the one remembered
DecideRoute(keep) ==
    LET used == ~route_by_header(route_in)
        load == used /\ _ALIASES_CACHE = {}
        cache == IF used THEN get_aliases(_ALIASES_CACHE, router_config, alias_file)
                 ELSE _ALIASES_CACHE
        aliases == IF cache = {} THEN EmptyMap ELSE CHOOSE t \in cache : TRUE
        decision == decide_route(router_config, aliases, route_in)
    IN  /\ route_in # NoRoute
        /\ route_out = NoDecision
        /\ _ALIASES_CACHE' = cache
        /\ route_loads' = IF load THEN 1 ELSE 0
        /\ route_out' = decision
        /\ remembered' = IF keep THEN [in |-> route_in, out |-> decision] ELSE remembered
        /\ UNCHANGED <<chatVars, declVars, holder, toolVars, streamVars, agentVars, rateVars, runVars, alias_file,
                       router_config, route_in>>

\* the caller has the decision
RouteReturn ==
    /\ route_out # NoDecision
    /\ route_in' = NoRoute
    /\ route_out' = NoDecision
    /\ route_loads' = 0
    /\ UNCHANGED <<chatVars, declVars, holder, toolVars, streamVars, agentVars, rateVars, runVars, _ALIASES_CACHE, alias_file,
                   router_config, remembered>>

\* the operator edits the alias file while the gateway runs
AliasFileChange(f) ==
    /\ alias_file # f
    /\ alias_file' = f
    /\ UNCHANGED <<chatVars, declVars, holder, toolVars, streamVars, agentVars, rateVars, runVars, _ALIASES_CACHE,
                   router_config, route_in, route_out, route_loads, remembered>>

RouteNext ==
    \/ route_in = NoRoute /\ \E in \in RouteInputs : RouteCall(in)
    \/ DecideRoute(FALSE)
    \/ RouteReturn

RouteInit ==
    /\ GatewayInit
    /\ DeclStart(NoDigest, NoFile)
    /\ RateStart(DefaultRatePolicy)
    /\ RunStart(DefaultAgentSettings, EmptyMap)
    /\ OneRegistry
    /\ \E cfg \in RouterConfigs, f \in AliasFiles : RouterStart(cfg, f)

RouteSpec == RouteInit /\ [][RouteNext]_vars

\* the calls compared for equal decisions
PurityInputs ==
    { RouteInput(m, xb, <<>>, n, FALSE, tools, policy, FALSE) :
        m \in {<<>>, Str("qwen"), Str("default")},
        xb \in {<<>>, Str("ollama")},
        n \in {MaxSize},
        tools \in BOOLEAN, policy \in BOOLEAN }

PurityNext ==
    \/ route_in = NoRoute /\ \E in \in PurityInputs : RouteCall(in)
    \/ \E keep \in BOOLEAN : DecideRoute(keep)
    \/ RouteReturn
    \/ \E f \in AliasFiles : AliasFileChange(f)

PuritySpec == RouteInit /\ [][PurityNext]_vars

\* the calls the decision order is checked over: every model string and
\* header, with and without tools and policy, short messages, no request type
OrderInputs ==
    { RouteInput(m, xb, <<>>, 0, FALSE, tools, policy, FALSE) :
        m \in Strings(MaxModelLen),
        xb \in {<<>>, Str("ollama"), <<" ", "mlx">>},
        tools \in BOOLEAN, policy \in BOOLEAN }

OrderNext ==
    \/ route_in = NoRoute /\ \E in \in OrderInputs : RouteCall(in)
    \/ DecideRoute(FALSE)
    \/ RouteReturn

OrderSpec == RouteInit /\ [][OrderNext]_vars

\* ------------------------------------------------------------ properties
ChatKey(r) == <<cls[r], "chat">>

\* A handler holds a lease from the return of acquire to its release.
Holding(r) == pc[r] \in {"constraints", "upstream", "finally"}

HeldLeases(key) == Cardinality({r \in Reqs : Holding(r) /\ ChatKey(r) = key})

\* C1: for every (backend_class, capability) key with limit L, under every
\* interleaving of the handlers' acquire and release calls, at most L leases
\* are held, and get_stats reports available + inflight = limit with
\* inflight equal to the number of held leases.
C1_AdmissionSafety ==
    \A key \in DOMAIN semaphores :
        LET st == get_stats(registry, semaphores)[key]
        IN  /\ HeldLeases(key) <= ConfiguredLimit(key)
            /\ st.limit = ConfiguredLimit(key)
            /\ st.available + st.inflight = st.limit
            /\ st.inflight = HeldLeases(key)

\* Every permit of a key with the largest limit is held.
C1_Witness ==
    \E key \in DOMAIN semaphores :
        /\ ConfiguredLimit(key) = MaxLimit
        /\ HeldLeases(key) = MaxLimit
        /\ get_stats(registry, semaphores)[key].available = 0

\* C2: when all L permits of a key are held, the next acquire on that key
\* fails at once with 429 backend_overloaded and Retry-After: 5; the handler
\* ends in that same step (it never waits) and no count changes.
C2_AdmissionFailFast ==
    [][\A r \in Reqs :
        (/\ pc[r] = "acquire"
         /\ pc'[r] # "acquire"
         /\ ChatKey(r) \in DOMAIN semaphores
         /\ HeldLeases(ChatKey(r)) = ConfiguredLimit(ChatKey(r)))
        => (/\ pc'[r] = "done"
            /\ resp'[r] = Http(429, "backend_overloaded", 5)
            /\ semaphores' = semaphores)]_vars

\* A request was refused as overloaded while every permit of its key was held.
C2_Witness ==
    \E r \in Reqs :
        /\ pc[r] = "done"
        /\ resp[r].error = "backend_overloaded"
        /\ HeldLeases(ChatKey(r)) = ConfiguredLimit(ChatKey(r))
        /\ ConfiguredLimit(ChatKey(r)) >= 1

StreamsInProgress(c) == Cardinality({r \in Reqs : pc[r] = "streaming" /\ cls[r] = c})

\* C4: the permit of a streaming chat completion stays held while the stream
\* is relayed, so the streams in progress on a backend never exceed its chat
\* limit.
C4_StreamsWithinLimit ==
    \A c \in DOMAIN registry.backends :
        <<c, "chat">> \in DOMAIN semaphores =>
            /\ StreamsInProgress(c) <= ConfiguredLimit(<<c, "chat">>)
            /\ semaphores[<<c, "chat">>] <= ConfiguredLimit(<<c, "chat">>) - StreamsInProgress(c)

\* C6: once a probe has recorded ready=false for backend B, a chat request
\* routed to B is refused at the gate with 503 backend_not_ready and
\* Retry-After: 30, and goes no further, until a probe records ready=true.
C6_HealthGating ==
    [][\A r \in Reqs :
        (/\ pc[r] = "ready"
         /\ pc'[r] # "ready"
         /\ cls[r] \in DOMAIN health
         /\ health[cls[r]] = [is_ready |-> FALSE])
        => (/\ pc'[r] = "done"
            /\ resp'[r] = Http(503, "backend_not_ready", 30)
            /\ semaphores' = semaphores)]_vars

\* A request was refused at the gate of a backend whose last probe said not ready.
C6_Witness ==
    \E r \in Reqs :
        /\ pc[r] = "done"
        /\ resp[r] = Http(503, "backend_not_ready", 30)
        /\ health[cls[r]] = [is_ready |-> FALSE]

\* C7: a chat request with tools against an alias with tools=false is
\* refused with 400 before any admission permit is acquired.
C7_ToolsRefusedBeforeAdmission ==
    \A r \in Reqs :
        resp[r].error = "tools_not_allowed_for_alias" =>
            /\ resp[r].status = 400
            /\ acquired[r] = 0

LiveLeases(key) == Cardinality({c \in Callers : holder[c].key = key /\ holder[c].releases = 0})

\* C8: release is idempotent within a lease: after one acquire, a second
\* release changes nothing, so a key's available permits are its limit less
\* the leases not yet released, and never exceed the limit.
C8_ReleaseIdempotent ==
    \A key \in DOMAIN semaphores :
        /\ semaphores[key] <= ConfiguredLimit(key)
        /\ semaphores[key] = ConfiguredLimit(key) - LiveLeases(key)

\* C3: every tool-concurrency permit an execute call acquires is released
\* on every exit path, so with no execute call in progress the available
\* permits equal TOOLS_MAX_CONCURRENT.
C3_ToolPermitsReturned ==
    (\A w \in Workers : tpc[w] \in {"idle", "done"}) =>
        \A i \in 1..Len(tools_sem) : tools_sem[i] = _tools_concurrency_sem

\* what the client reads: the yielded chunks, concatenated
RECURSIVE Flatten(_)
Flatten(chunks) == IF chunks = <<>> THEN <<>> ELSE Head(chunks) \o Flatten(Tail(chunks))

DoneCount(bytes) ==
    Cardinality({ i \in 1..(Len(bytes) - 1) : SubSeq(bytes, i, i + 1) = DoneMarker })

EndsWithDone(bytes) ==
    Len(bytes) >= 2 /\ SubSeq(bytes, Len(bytes) - 1, Len(bytes)) = DoneMarker

\* C5: every stream either translator emits, whatever the upstream does,
\* holds exactly one data: [DONE], and it is the stream's last event.
C5_ExactlyOneDone ==
    (spc = "closed" /\ cancel_at = {}) => DoneCount(Flatten(out)) = 1 /\ EndsWithDone(Flatten(out))

Count(evs, type) == Cardinality({ i \in 1..Len(evs) : evs[i] = type })

\* C9: a run with max_turns = T has at most T plan events and at most T
\* assistant events in its transcript, whatever the upstream and tools return.
C9_TurnBudget ==
    /\ Count(events, "plan") <= max_turns
    /\ Count(events, "assistant") <= max_turns

C9_Witness ==
    /\ apc = "done"
    /\ max_turns = MaxTurns
    /\ Count(events, "plan") = MaxTurns
    /\ Count(events, "assistant") = MaxTurns
    /\ error = "agent turn limit exceeded"

\* C10: once the accumulated tool I/O exceeds max_total_tool_io_bytes the run
\* begins no further upstream or tool call, its last event is run_failed,
\* and the response to POST /v1/agent/run has status 413.
C10_ToolIoBudget ==
    (apc = "done" /\ io_budget_exceeded(max_tool_io, total_tool_io)) =>
        /\ calls_after = 0
        /\ events[Len(events)] = "run_failed"
        /\ http_status = 413

\* the parts of C10 the run does keep
C10_StopsAndFails ==
    (apc = "done" /\ io_budget_exceeded(max_tool_io, total_tool_io)) =>
        /\ calls_after = 0
        /\ events[Len(events)] = "run_failed"
        /\ error = "tool IO budget exceeded"

Sentinels ==
    {Str("auto"), Str("default"), Str("ollama"), Str("mlx"), Str("ollama-default"),
     Str("mlx-default")}

\* C11: whatever the X-Backend header, request model, alias table and policy
\* flags, the model decide_route resolves is never "auto" and never a backend
\* sentinel.
C11_NoSentinelUpstream == route_out.model \notin Sentinels

C13_ErrorThenStopThenDone ==
    (spc = "closed" /\ fault \in {"transport_error", "error"}) =>
        /\ Count(out, ErrorChunk) = 1
        /\ Len(out) >= 3
        /\ SubSeq(out, Len(out) - 2, Len(out)) = <<ErrorChunk, FinishChunk("stop"), sse_done>>
        /\ DoneCount(Flatten(out)) = 1

\* C14: the very first event of every stream of either translator announces
\* role=assistant, also when the upstream errors or yields no data.
C14_RoleFirst ==
    /\ Flatten(out) # <<>> => Head(Flatten(out)) = Head(RoleChunk)
    /\ (spc = "closed" /\ cancel_at = {}) => Flatten(out) # <<>>

\* C15: once the client connection is cancelled the translator emits no
\* further event: no content, no stop chunk, no [DONE].
C15_SilentAfterCancel ==
    \A n \in cancel_at : Len(out) = n

\* C16: execute rejects before it takes a permit: a call answered with
\* undeclared_tool, unknown_tool or invalid_arguments has neither acquired
\* nor waited for a permit, so only calls that pass the three checks are
\* ever found at the semaphore.
C16_RejectBeforePermit ==
    \A w \in Workers :
        /\ tout[w].error_type \in {"undeclared_tool", "unknown_tool", "invalid_arguments"}
              => ~tool_acquired[w]
        /\ tpc[w] = "acquire" => tool_rejection(call[w]) = NoOut

\* C17: a call for a tool name outside the caller's effective allowlist is
\* answered 404 unknown_tool, whether or not a tool of that name is declared,
\* and no implementation is run.
C17_DisallowedIsUnknown ==
    \A w \in Workers :
        (tpc[w] = "done" /\ call[w].name \notin call[w].allowed_tools) =>
            /\ tout[w].status = 404
            /\ tout[w].error_type = "unknown_tool"
            /\ ~tout[w].ran

\* C18: at most TOOLS_MAX_CONCURRENT tool implementations execute at the same
\* time, and a call whose acquire timed out (429 rate_limited) has not run
\* the tool and holds no permit.
C18_ConcurrencyBound ==
    /\ Cardinality({ w \in Workers : tpc[w] = "run" }) <= TOOLS_MAX_CONCURRENT
    /\ \A w \in Workers :
          tout[w].error_type = "rate_limited" => ~tout[w].ran /\ ~tool_acquired[w]

\* C19: a call for a declared and allowed tool that omits a field F its
\* schema lists as required is rejected with 400 invalid_arguments, F is
\* named in the issues, and the implementation is not run.
C19_MissingRequiredRejected ==
    \A w \in Workers :
        LET sch == _resolve_declared_tool(call[w].name)
        IN  (tpc[w] = "done" /\ call[w].name \in call[w].allowed_tools /\ sch # NoSchema) =>
                \A F \in sch.required \ call[w].args :
                    /\ tout[w].status = 400
                    /\ tout[w].error_type = "invalid_arguments"
                    /\ <<"missing required field", F>> \in tout[w].issues
                    /\ ~tout[w].ran

\* C20: after a successful execution has returned replay_id R, a replay
\* lookup of R, however other executions interleave, returns a record whose
\* replay_id is R and whose request_hash is the hash recomputed from the
\* original {tool, version, arguments}.
C20_ReplayRoundTrip ==
    (replayed.rid \in DOMAIN returned /\ returned[replayed.rid].ok) =>
        LET request == returned[replayed.rid]
        IN  /\ replayed.status = 200
            /\ replayed.record.replay_id = replayed.rid
            /\ replayed.record.request_hash =
                  _request_hash(request.tool, request.version, request.arguments)

\* C21: with rps > 0 and burst > 0, a tools request is admitted only when
\* its token's bucket holds at least one token and is refused with 429
\* rate_limited otherwise; the requests a bucket admits over any interval
\* of length D number at most burst + rps * D (so at most burst with no
\* time elapsing); the bucket level stays within [0, burst].
C21_TokenBucket ==
    (rate_policy.rps > 0 /\ rate_policy.burst > 0) =>
        /\ rate_resp.status = 200 => rate_resp.level >= TokenUnit
        /\ rate_resp.status = 429 =>
              rate_resp.error_type = "rate_limited" /\ rate_resp.level < TokenUnit
        /\ \A tok \in DOMAIN _RATE_STATE :
              /\ _RATE_STATE[tok].tokens >= 0
              /\ _RATE_STATE[tok].tokens <= rate_policy.burst * TokenUnit
        /\ \A tok \in DOMAIN admitted :
              \A i, j \in 1..Len(admitted[tok]) :
                  i <= j => (j - i + 1) * TokenUnit <=
                              rate_policy.burst * TokenUnit
                              + rate_policy.rps * (admitted[tok][j] - admitted[tok][i])

\* a bucket emptied, refilled by the passing of time, emptied again, and a
\* request refused
C21_Witness ==
    /\ rate_policy.rps > 0
    /\ rate_resp.status = 429
    /\ \E tok \in DOMAIN admitted :
          /\ tok = rate_resp.tok
          /\ Len(admitted[tok]) > rate_policy.burst

\* C22: a run request naming an agent for which no AgentSpec is configured
\* is rejected with HTTP 400 and starts no run: it never holds an admission
\* lease, makes no upstream call and produces no transcript.
C22_UnknownAgentRejected ==
    \A r \in Runs :
        (rpc[r] # "idle" /\ ~run[r].configured) =>
            /\ rpc[r] = "done"
            /\ run_resp[r].status = 400
            /\ ~run[r].leased /\ ~run[r].upstream /\ ~run[r].transcript

Waiting == { r \in Runs : rpc[r] = "queued" }

\* C24: the agent queue is global: the number of runs waiting for a lease,
\* over all backends together, never exceeds the queue bound in force.
C24_GlobalQueueBound ==
    \A b \in RouteBackends :
        Cardinality(Waiting) <= _profile(agent_settings, b).queue_max

\* C25: a run queued for a lease stops waiting: it obtains the lease or,
\* the permit not having come, is refused with 429 queue_timeout; the
\* refusal leaves the run without a lease and out of the semaphore's
\* waiters, and leaves every semaphore's permits as they were.
C25_QueueTimeout ==
    /\ \A r \in Runs : (rpc[r] = "queued") ~> (rpc[r] # "queued")
    /\ [][\A r \in Runs :
            (rpc[r] = "queued" /\ rpc'[r] # "queued") =>
                \/ rpc'[r] = "running" /\ run'[r].lease
                \/ /\ rpc'[r] = "done"
                   /\ run_resp'[r] = [status |-> 429, error |-> "queue_timeout"]
                   /\ ~run'[r].lease /\ ~run'[r].leased
                   /\ \A b \in RouteBackends :
                         /\ _sem'[b]._value = _sem[b]._value
                         /\ Position(_sem'[b]._waiters, r) = 0]_vars

C25_Witness ==
    \E r, q \in Runs :
        /\ run_resp[r].error = "queue_timeout"
        /\ run[q].lease
        /\ _sem[run[q].backend]._value = 0

\* the runs holding a lease of backend b
Leased(b) == { r \in Runs : run[r].lease /\ run[r].backend = b }

\* C26: for each backend the runs holding a lease at one time never exceed
\* the backend's agent concurrency ceiling (_profile(backend).concurrency,
\* the AGENT_BACKEND_CONCURRENCY_* setting as acquire reads it), and the
\* semaphore's free permits and the held leases add up to that ceiling.
C26_LeaseCeiling ==
    \A b \in RouteBackends :
        /\ Cardinality(Leased(b)) <= _profile(agent_settings, b).concurrency
        /\ _sem[b]._initial_value # 0 =>
               /\ _sem[b]._value >= 0
               /\ _sem[b]._value + Cardinality(Leased(b)) = _profile(agent_settings, b).concurrency

C26_Witness ==
    \E b \in RouteBackends :
        /\ Cardinality(Leased(b)) = _profile(agent_settings, b).concurrency
        /\ \E r \in Waiting : run[r].backend = b

\* the intersection of the tier capability set and a declared allowlist
Granted(rec) == tools_for_tier(rec.tier) \cap (CHOOSE allow2 \in rec.declared : TRUE)

\* C27: whenever the run's AgentSpec declares a tools_allowlist, every tool
\* offered to the model and every tool executed in the run lies in the
\* intersection of the tier capability set and that allowlist.
C27_AllowlistIntersection ==
    \A r \in Runs :
        run[r].declared # {} =>
            /\ run[r].offered \subseteq Granted(run[r])
            /\ run[r].executed \subseteq Granted(run[r])

FinalEvents == {"run_completed", "run_failed"}

\* C28: in the transcript of a run the events stand in the order produced:
\* run_started is first; a final event, run_completed or run_failed, stands
\* only in the last place, and a finished run has exactly one, matching ok;
\* in each turn the plan event comes first, the assistant event follows it
\* and the turn's tool events follow the assistant event; and each step
\* only appends to the events already there.
C28_TranscriptOrder ==
    /\ [](/\ events # <<>> => events[1] = "run_started"
          /\ \A i \in 1..Len(events) :
                /\ events[i] = "run_started" => i = 1
                /\ events[i] \in FinalEvents => i = Len(events) /\ apc = "done"
                /\ events[i] = "plan" => i > 1 /\ events[i - 1] \in {"run_started", "tool"}
                /\ events[i] = "assistant" => i > 1 /\ events[i - 1] = "plan"
                /\ events[i] = "tool" => i > 1 /\ events[i - 1] \in {"assistant", "tool"}
          /\ apc = "done" =>
                events[Len(events)] = (IF ok THEN "run_completed" ELSE "run_failed"))
    /\ [][/\ Len(events') >= Len(events)
          /\ SubSeq(events', 1, Len(events)) = events]_vars

C28_Witness ==
    /\ apc = "done"
    /\ Count(events, "plan") = 2
    /\ Count(events, "tool") >= 2
    /\ events[Len(events)] = "run_completed"

\* the alias table the finished call consulted
Consulted == CHOOSE t \in _ALIASES_CACHE : TRUE

\* a chat request with tools, policy enabled and no X-Backend header, whose
\* decision has been made
ToolsUnderPolicy ==
    /\ route_in # NoRoute /\ route_out # NoDecision
    /\ route_in.has_tools /\ route_in.enable_policy
    /\ route_in.x_backend = <<>>

\* the decision names alias `key` and carries its backend and its upstream
\* model, normalised for that backend
FromAlias(key) ==
    /\ key \in DOMAIN Consulted
    /\ route_out.backend = Consulted[key].backend
    /\ route_out.model = _normalize_model(Consulted[key].upstream_model,
                                          Consulted[key].backend, router_config)

\* C29 as stated: such a request for model "default" gets a reason that
\* starts with policy:tools->alias: and the upstream model of that alias.
C29_ToolsPolicyReason ==
    (ToolsUnderPolicy /\ route_in.request_model = Str("default")) =>
        \/ route_out.reason = "policy:tools->alias:default" /\ FromAlias(Str("default"))
        \/ route_out.reason = "policy:tools->alias:coder" /\ FromAlias(Str("coder"))

\* C29, amended: such a request for model "default" is routed by the alias
\* rule, reason alias:model, to the backend and upstream model of the
\* `default` alias; the same request with model "auto" or no model is
\* routed by the tools policy, and when the reason names an alias the
\* backend and upstream model are that alias's.
C29_ToolsAliasReason ==
    /\ (ToolsUnderPolicy /\ route_in.request_model = Str("default")) =>
           route_out.reason = "alias:model" /\ FromAlias(Str("default"))
    /\ (ToolsUnderPolicy /\ route_in.request_model \in {<<>>, Str("auto")}) =>
           /\ route_out.reason \in {"policy:tools->alias:default", "policy:tools->alias:coder",
                                     "policy:tools->strong"}
           /\ route_out.reason = "policy:tools->alias:default" => FromAlias(Str("default"))
           /\ route_out.reason = "policy:tools->alias:coder" => FromAlias(Str("coder"))

C29_Witness ==
    /\ ToolsUnderPolicy
    /\ route_in.request_model = Str("default")
    /\ route_out.reason = "alias:model"
    /\ route_out.backend # router_config.default_backend

\* the request model as the rules read it: stripped, in lower case, and
\* "auto" standing for no model
ModelKey ==
    LET w == lower(strip(route_in.request_model))
    IN  IF w = Str("auto") THEN <<>> ELSE w

HeaderBackend == lower(strip(route_in.x_backend))

PolicyReasons ==
    {"policy:tools->alias:default", "policy:tools->alias:coder", "policy:tools->strong",
     "policy:long_context->alias:long", "policy:long_context->mlx",
     "policy:long_context->strong", "policy:coding->alias:coder", "policy:coding->strong",
     "policy:fast->alias:fast", "policy:fast"}

\* C30: decide_route applies its rules in first-match-wins order: a
\* recognised X-Backend header gives that backend and override:x-backend
\* whatever the model; else a model that is an alias key gives alias:model;
\* else a backend prefix or sentinel gives that backend and pinned:model;
\* else, policy disabled, direct:model; else one of the policy reasons.
C30_FirstMatchWins ==
    (route_in # NoRoute /\ route_out # NoDecision) =>
        IF HeaderBackend \in {Str("ollama"), Str("mlx")}
        THEN route_out.reason = "override:x-backend" /\ route_out.backend = HeaderBackend[1]
        ELSE IF ModelKey # <<>> /\ ModelKey \in DOMAIN Consulted
        THEN route_out.reason = "alias:model"
        ELSE IF startswith(ModelKey, "ollama:") \/ ModelKey \in {Str("ollama"), Str("ollama-default")}
        THEN route_out.reason = "pinned:model" /\ route_out.backend = "ollama"
        ELSE IF startswith(ModelKey, "mlx:") \/ ModelKey \in {Str("mlx"), Str("mlx-default")}
        THEN route_out.reason = "pinned:model" /\ route_out.backend = "mlx"
        ELSE IF ~route_in.enable_policy
        THEN route_out.reason = "direct:model"
        ELSE route_out.reason \in PolicyReasons

\* the header wins over a model that carries the other backend's prefix,
\* and over one that is an alias key
C30_Witness ==
    /\ route_out.reason = "override:x-backend"
    /\ route_out.backend = "mlx"
    /\ route_in # NoRoute
    /\ \/ startswith(ModelKey, "ollama:")
       \/ ModelKey = Str("default")

\* ---------------------------------------------------------------- C31
\* a line that carries non-empty content and nothing else
ContentLine(line) ==
    line.kind = "object" /\ line.content # "" /\ ~line.thinking /\ ~line.done

\* the closing line: done:true, no content
DoneLine(line) ==
    line.kind = "object" /\ line.done /\ line.content = "" /\ ~line.thinking

\* the upstream sent k content lines and then the done line, the client stayed
OllamaReplyComplete ==
    /\ translator = "ollama"
    /\ spc = "closed"
    /\ cancel_at = {}
    /\ fed # <<>>
    /\ DoneLine(fed[Len(fed)])
    /\ \A i \in 1..(Len(fed) - 1) : ContentLine(fed[i])

\* C31: for an Ollama reply of k content lines followed by a done:true line
\* the client observes exactly the role chunk, then the k content deltas in
\* upstream order, then one finish chunk carrying done_reason ("stop" when it
\* is absent), then [DONE].
C31_OllamaTranslation ==
    OllamaReplyComplete =>
        LET k == Len(fed) - 1
            last == fed[Len(fed)]
            reason == IF last.done_reason = "" THEN "stop" ELSE last.done_reason
        IN  out = <<RoleChunk>>
                  \o [i \in 1..k |-> <<"content", fed[i].content>>]
                  \o <<<<"finish", reason>>, DoneMarker>>

\* two different content strings, then a done line with a done_reason
C31_Witness ==
    /\ OllamaReplyComplete
    /\ Len(fed) = 3
    /\ fed[1].content # fed[2].content
    /\ fed[3].done_reason = "length"

\* ---------------------------------------------------------------- C32
\* C32: every NDJSON line (a JSON object) read from the Ollama upstream while
\* streaming adds exactly one chat.completion.chunk event to what the client
\* receives.
C32_OneChunkPerLine ==
    [][(/\ translator = "ollama"
        /\ spc = "relay"
        /\ Len(fed') = Len(fed) + 1
        /\ fed'[Len(fed')].kind = "object")
       => Len(out') = Len(out) + 1]_vars

\* ---------------------------------------------------------------- C37
\* the MLX upstream body ended by itself: no transport error, client connected
UpstreamEnded ==
    /\ translator = "mlx"
    /\ spc = "closed"
    /\ cancel_at = {}
    /\ fault = None

\* C37: passthrough_sse forwards the upstream bytes unchanged and in order
\* and appends a terminal [DONE] exactly when the upstream ended without
\* sending one, also when the upstream's marker is split across chunks.
C37_PassthroughDone ==
    UpstreamEnded =>
        LET sent == Flatten(fed)
        IN  Flatten(out) = sent \o (IF DoneCount(sent) = 0 THEN DoneMarker ELSE <<>>)

\* the marker arrived in two chunks and nothing was appended
C37_Witness ==
    /\ UpstreamEnded
    /\ \E i \in 1..(Len(fed) - 1) :
          /\ fed[i] # <<>> /\ fed[i][Len(fed[i])] = "D1"
          /\ fed[i + 1] # <<>> /\ fed[i + 1][1] = "D2"
    /\ DoneCount(Flatten(out)) = 1
    /\ \A i \in 1..Len(fed) : fed[i] # DoneMarker

\* ---------------------------------------------------------------- C33
\* the names is_ready is asked about: every class a registry may hold and
\* one that no registry holds
AskedClasses == {"ollama", "mlx", "local_mlx", "nonexistent"}

\* no probe result has been recorded for c
NeverProbed(c) == c \notin DOMAIN health \/ health[c] = NoStatus

\* C33: is_ready(B) is true exactly when no probe result has been recorded
\* for B or the most recently recorded one has ready = true; a backend never
\* probed, one outside the registry included, is ready.
C33_IsReady ==
    \A c \in AskedClasses :
        /\ is_ready(health, c) = (NeverProbed(c) \/ health[c].is_ready)
        /\ NeverProbed(c) => is_ready(health, c)

\* one backend probed not ready, another never probed
C33_Witness ==
    /\ \E c \in DOMAIN health : ~NeverProbed(c) /\ ~health[c].is_ready /\ ~is_ready(health, c)
    /\ \E c \in DOMAIN health : NeverProbed(c) /\ is_ready(health, c)
    /\ is_ready(health, "nonexistent")

\* ---------------------------------------------------------------- C39
\* the request was refused by the readiness pre-flight or the capability check
Gated(x) ==
    x \in {Http(503, "backend_not_ready", 30), Http(400, "capability_not_supported", 0)}

\* C39: a chat request refused by the readiness pre-flight (503
\* backend_not_ready) or the capability check (400 capability_not_supported)
\* never acquires a permit: no step of its handling, from the routing
\* decision to the end of the handler, changes any semaphore count.
C39_GatedBeforeAdmission ==
    [][\A r \in Reqs :
        /\ (pc[r] \in {"idle", "ready", "capability"} /\ pc'[r] # pc[r] /\ pc'[r] # "acquire")
             => semaphores' = semaphores
        /\ (Gated(resp[r]) \/ Gated(resp'[r]))
             => (/\ semaphores' = semaphores
                 /\ acquired'[r] = 0
                 /\ released'[r] = 0)]_vars

\* a request refused by the readiness pre-flight while another holds a permit
C39_Witness ==
    /\ \E r \in Reqs :
          /\ pc[r] = "done"
          /\ resp[r].error = "backend_not_ready"
          /\ acquired[r] = 0
    /\ \E q \in Reqs : acquired[q] = 1 /\ released[q] = 0

\* ---------------------------------------------------------------- C36
\* the handler is past its acquire and has not reached the end of finally
InTry(r) == pc[r] \in {"constraints", "upstream", "finally"}

\* the handler has returned or raised
Over(r) == pc[r] \in {"done", "streaming"}

\* C36: every permit a chat request acquires is released exactly once on
\* every outcome of the handler (response, upstream error, validation error
\* after the acquire, client disconnect), and a request whose acquire was
\* refused releases nothing.
C36_ReleasedExactlyOnce ==
    \A r \in Reqs :
        /\ acquired[r] <= 1
        /\ InTry(r) => (acquired[r] = 1 /\ released[r] = 0)
        /\ Over(r) => released[r] = acquired[r]
        /\ (Over(r) /\ resp[r].status \in {200, 502, 499}) => acquired[r] = 1
        /\ (Over(r) /\ resp[r].error \in {"tools_not_allowed_for_alias", "stream_with_tools"})
              => acquired[r] = 1
        /\ (Over(r) /\ resp[r] = Http(429, "backend_overloaded", 5))
              => (acquired[r] = 0 /\ released[r] = 0)

\* a request ended by a client disconnect has given its permit back, and the
\* backend's count is whole again
C36_Witness ==
    \E r \in Reqs :
        /\ pc[r] = "done"
        /\ resp[r].status = 499
        /\ acquired[r] = 1
        /\ released[r] = 1
        /\ semaphores[<<cls[r], "chat">>] = ConfiguredLimit(<<cls[r], "chat">>)

\* ---------------------------------------------------------------- C34
\* C34: an exception raised while probing one backend never blocks the health
\* loop: when the round is over every other backend's status has been
\* recorded in that round, and while the checker is running the loop goes on
\* to start the next round.
C34_LoopNeverBlocked ==
    /\ [](hpc = "sleep" =>
            /\ probed \cup raised = DOMAIN registry.backends
            /\ probed \cap raised = {}
            /\ \A c \in probed : health[c] # NoStatus)
    /\ \A n \in 1..(MaxRounds - 1) :
          (rounds = n /\ hpc = "gather") ~> (rounds = n + 1 \/ ~_running)

\* a round in which one probe raised and another backend's status was recorded
C34_Witness ==
    /\ hpc = "sleep"
    /\ raised # {}
    /\ probed # {}
    /\ rounds = MaxRounds

\* ---------------------------------------------------------------- C35
\* C35: a replay lookup that runs while the invocation's per-invocation file
\* is being written finds at {log_dir}/{replay_id}.json either no file or the
\* complete record, never an empty or a partial file.
C35_FileNeverPartial ==
    replayed.found \in {None, "no_file", "complete"}

\* ---------------------------------------------------------------- C38
\* C38: whenever the registry file's digest differs from the configured
\* digest the registry is ignored entirely: _load_tools_registry returns no
\* tool, so none is listed or executable, whatever loads, file changes and
\* cache hits came before.
C38_MismatchIgnored ==
    declared.mismatch => declared.tools = {}

\* ---------------------------------------------------------------- C40
\* the acquire calls on backend b that are enqueued and not yet finished
InProgress(b) == { r \in Runs : rpc[r] = "queued" /\ run[r].backend = b }

\* C40: the waiter counter of each backend equals the number of acquire
\* calls enqueued and not yet finished; it is never negative and is 0 when no
\* acquire is in progress, whether the acquires ended with a lease, by
\* timeout or by cancellation.
C40_WaiterCount ==
    \A b \in RouteBackends :
        /\ _waiters[b] = Cardinality(InProgress(b))
        /\ _waiters[b] >= 0
        /\ InProgress(b) = {} => _waiters[b] = 0

\* every acquire is over, one ended by cancellation and one another way, and
\* the counters are back at 0
C40_Witness ==
    /\ \A r \in Runs : rpc[r] = "done"
    /\ \E r \in Runs : run_resp[r].error = "cancelled"
    /\ \E r \in Runs : run_resp[r].error = "queue_timeout" \/ run_resp[r].status = 200
    /\ \A b \in RouteBackends : _waiters[b] = 0

====
